---- MODULE Spec2Model ----
(***************************************************************************)
(* Model of the retrieval postprocessor, postprocess_at_results2 and the    *)
(* stages it runs, of src/scratchpads/chat_utils_rag.rs.                   *)
(*                                                                         *)
(* Representation.                                                         *)
(*  - A Rust String is a sequence of one-character strings, so that        *)
(*    starts_with, len, trim and lines are computed, not assumed.          *)
(*  - An f32 score is an integer number of thousandths: 5.0 is 5000 and    *)
(*    the per-line bias 0.001 is 1.  A product with a coefficient is the   *)
(*    integer quotient of the exact product.                               *)
(*  - Vec indices are 0-based in the source and 1-based here: element i of *)
(*    a Vec is element i+1 of the sequence.                                *)
(*  - Arc<FileLine> is a line id <<file_name, line_n>>; the mutable fields *)
(*    (useful, color, take) live in one store, lines, that both views      *)
(*    (lines_in_files, lines_by_useful) refer to by id.                    *)
(***************************************************************************)
EXTENDS Integers, Sequences, FiniteSets, TLC

(***************************************************************************)
(* Strings                                                                 *)
(***************************************************************************)
StartsWith(s, p) == Len(p) <= Len(s) /\ SubSeq(s, 1, Len(p)) = p

RECURSIVE TrimLeft(_)
TrimLeft(s) == IF s # <<>> /\ Head(s) = " " THEN TrimLeft(Tail(s)) ELSE s

RECURSIVE TrimRight(_)
TrimRight(s) ==
    IF s # <<>> /\ s[Len(s)] = " " THEN TrimRight(SubSeq(s, 1, Len(s) - 1)) ELSE s

Trim(s) == TrimRight(TrimLeft(s))

\* str::lines(): the pieces between "\n"; a final empty piece is not a line.
RECURSIVE LinesFrom(_, _)
LinesFrom(text, cur) ==
    IF text = <<>> THEN (IF cur = <<>> THEN <<>> ELSE <<cur>>)
    ELSE IF Head(text) = "\n" THEN <<cur>> \o LinesFrom(Tail(text), <<>>)
    ELSE LinesFrom(Tail(text), Append(cur, Head(text)))

StrLines(text) == LinesFrom(text, <<>>)

\* str::split("::") followed by pop() and join("::"): the path without its
\* last segment; <<>> stands for "one segment only" (parent_path.len() <= 1).
RECURSIVE LastSep(_, _)
LastSep(s, i) ==
    IF i < 1 THEN 0
    ELSE IF i + 1 <= Len(s) /\ s[i] = ":" /\ s[i + 1] = ":" THEN i
    ELSE LastSep(s, i - 1)

HasParent(path) == LastSep(path, Len(path) - 1) > 0

ParentPath(path) == SubSeq(path, 1, LastSep(path, Len(path) - 1) - 1)

ColorEmpty    == <<"e", "m", "p", "t", "y">>
ColorComment  == <<"c", "o", "m", "m", "e", "n", "t">>
ColorDisabled == <<"d", "i", "s", "a", "b", "l", "e", "d">>
ColorNosymb   == <<"n", "o", "s", "y", "m", "b">>
BodySuffix    == <<":", ":", "b", "o", "d", "y">>
Elision       == <<".", ".", ".", "\n">>

Digit(n) == CASE n = 0 -> "0" [] n = 1 -> "1" [] n = 2 -> "2" [] n = 3 -> "3" [] OTHER -> "4"

\* format!("gradient_type: {:?}", omsg.gradient_type)
GradientColor(n) ==
    <<"g", "r", "a", "d", "i", "e", "n", "t", "_", "t", "y", "p", "e", ":", " ", Digit(n)>>

(***************************************************************************)
(* Fixed-point arithmetic                                                  *)
(***************************************************************************)
Max(a, b) == IF a >= b THEN a ELSE b
Min(a, b) == IF a <= b THEN a ELSE b

\* a / b for b # 0, with the sign carried by the numerator
Quot(a, b) == IF b < 0 THEN (0 - a) \div (0 - b) ELSE a \div b

\* x * (pct / 100)
Coef(x, pct) == (x * pct) \div 100

(***************************************************************************)
(* PostprocessSettings::new()                                              *)
(***************************************************************************)
useful_background          == 5000
useful_symbol_default      == 10000
degrade_parent_coef        == 60
degrade_body_coef          == 80
comments_propogate_up_coef == 99
close_small_gaps           == TRUE
take_floor                 == 0
t_fade_away_lines          == 50
FileOverhead               == 5

(***************************************************************************)
(* The workspace the postprocessor reads: paths, file texts, AST markup.   *)
(***************************************************************************)
PathA     == <<"a">>
PathAlias == <<".", "/", "a">>
PathB     == <<"b">>
PathGone  == <<"g">>

\* crate::files_correction::canonical_path: "./x" and "x" name the same file
canonical_path(file_name) ==
    IF StartsWith(file_name, <<".", "/">>) THEN SubSeq(file_name, 3, Len(file_name))
    ELSE file_name

TextA ==
    <<"/", "/", "\n",
      "A", " ", "{", "\n",
      "f", " ", "{", "\n",
      "x", "=", "1", "\n",
      "}", "\n",
      "}", "\n">>

TextB == <<"p", "\n", "\n", "q", " ", "r", "\n", "s", "\n">>

\* get_file_text_from_memory_or_disk(..).unwrap_or_default(): a file that
\* cannot be read has the empty text
get_file_text(cpath) ==
    CASE cpath = PathA -> TextA
      [] cpath = PathB -> TextB
      [] OTHER -> <<>>

GuidA       == "guid_A"
GuidComment == "guid_c"
GuidAf      == "guid_Af"
GuidUnknown == "guid_unknown"
Nil         == "nil"

Symbol(guid, path, type, row1, row2, declEnd, defStart, defEnd, defEndByte) ==
    [guid |-> guid, symbol_path |-> path, symbol_type |-> type,
     full_range |-> [start_row |-> row1, end_row |-> row2],
     declaration_range |-> [end_row |-> declEnd],
     definition_range |-> [start_row |-> defStart, end_row |-> defEnd,
                           end_byte |-> defEndByte]]

\* FileASTMarkup.symbols_sorted_by_path_len of file a:
\*   0  //          comment
\*   1  A {         A, declaration
\*   2  f {         A::f, declaration
\*   3  x=1         A::f, body
\*   4  }           A::f, body
\*   5  }           A, body
SymbolsA ==
    << Symbol(GuidA, <<"A">>, "StructDeclaration", 1, 5, 1, 2, 5, 17),
       Symbol(GuidComment, <<"c", "0">>, "CommentDefinition", 0, 0, 0, 0, 0, 0),
       Symbol(GuidAf, <<"A", ":", ":", "f">>, "FunctionDeclaration", 2, 4, 2, 3, 4, 15) >>

\* ast_module.file_markup(doc): Ok for file a, Err for every other file
file_markup_ok(cpath) == cpath = PathA

file_markup_symbols(cpath) == IF cpath = PathA THEN SymbolsA ELSE <<>>

\* count_tokens: the injected tokenizer yields one token per run of
\* non-blank characters; Err(_) => 0 for a text it cannot encode
EncodeFails == { <<"s">> }

RECURSIVE WordCount(_, _)
WordCount(text, inWord) ==
    IF text = <<>> THEN 0
    ELSE IF Head(text) = " " THEN WordCount(Tail(text), FALSE)
    ELSE (IF inWord THEN 0 ELSE 1) + WordCount(Tail(text), TRUE)

count_tokens(text) == IF text \in EncodeFails THEN 0 ELSE WordCount(text, FALSE)

(***************************************************************************)
(* ContextFile (a hint)                                                    *)
(***************************************************************************)
Hint(file_name, line1, line2, symbol, usefulness, gradient_type, is_body_important) ==
    [file_name |-> file_name, line1 |-> line1, line2 |-> line2, symbol |-> symbol,
     usefulness |-> usefulness, gradient_type |-> gradient_type,
     is_body_important |-> is_body_important]


(***************************************************************************)
(* Line store helpers.  L is the store (line id -> FileLine fields), vec a *)
(* Vec<Arc<FileLine>> (a sequence of ids without repetition).              *)
(***************************************************************************)
InVec(vec, id) == \E k \in 1..Len(vec) : vec[k] = id

IndexIn(vec, id) == (CHOOSE k \in 1..Len(vec) : vec[k] = id) - 1

\* a loop over vec that rewrites each line from its own fields and index i
MapVec(L, vec, F(_, _)) ==
    [id \in DOMAIN L |-> IF InVec(vec, id) THEN F(IndexIn(vec, id), L[id]) ELSE L[id]]

Assign(line, useful, color) == [line EXCEPT !.useful = useful, !.color = color]

(***************************************************************************)
(* color_with_gradient_type and set_useful_for_line                        *)
(***************************************************************************)
\* find_line_parameters followed by  x * m + c
LineThrough(x1, y1, x2, y2, x) ==
    IF y2 - y1 = 0 \/ x2 - x1 = 0 THEN 0
    ELSE y1 + Quot((y2 - y1) * (x - x1), x2 - x1)

\* a faulty variant with the operands of the subtraction exchanged
UniformDecaySwapped(usefulness, line_n) == line_n - usefulness

\* 0 => omsg.usefulness - (line_n as f32) * 0.001
UniformDecay(usefulness, line_n) == usefulness - line_n

GradientUsefulness(omsg, line_n) ==
    LET u   == omsg.usefulness
        l1  == omsg.line1
        l2  == omsg.line2
        t   == t_fade_away_lines
        v11 == LineThrough(l1, u, l1 - t, 0, line_n)
        v12 == LineThrough(l1, u, l1 + t, 0, line_n)
        v21 == LineThrough(l2, u, l2 - t, 0, line_n)
        v22 == LineThrough(l2, u, l2 + t, 0, line_n)
    IN  CASE omsg.gradient_type = 0 -> UniformDecay(u, line_n)
          [] omsg.gradient_type = 1 ->
                IF line_n < l1 THEN Max(v11, 0) ELSE Max(v12, 0)
          [] omsg.gradient_type = 2 ->
                IF line_n <= l2 THEN Max(v21, 0) ELSE -1000
          [] omsg.gradient_type = 3 ->
                IF line_n < l1 THEN -1000 ELSE Max(v12, 0)
          [] omsg.gradient_type = 4 ->
                Max(IF line_n < l1 THEN v11
                    ELSE IF line_n >= l1 /\ line_n <= l2 THEN 100000
                    ELSE v22, 0)
          [] OTHER -> 0

set_useful_for_line(line, useful, color) ==
    IF line.useful < useful \/ useful < 0 THEN Assign(line, useful, color) ELSE line

color_with_gradient_type(L, vec, omsg) ==
    IF omsg.gradient_type < 0 \/ omsg.gradient_type > 4 THEN L
    ELSE MapVec(L, vec, LAMBDA i, line :
            set_useful_for_line(line, GradientUsefulness(omsg, i + 1),
                                GradientColor(omsg.gradient_type)))

(***************************************************************************)
(* The colorize_* passes                                                   *)
(***************************************************************************)
\* a faulty variant that reads a reversed range line2 < line1 as the range
\* between the two numbers
colorize_either_way(L, vec, line1, line2, color, useful) ==
    MapVec(L, vec, LAMBDA i, line :
        IF i >= Min(line1, line2) /\ i < Max(line1, line2)
              /\ (line.useful < useful - i \/ line.color = <<>>)
        THEN Assign(line, useful - i, color)
        ELSE line)

colorize_if_more_useful(L, vec, line1, line2, color, useful) ==
    MapVec(L, vec, LAMBDA i, line :
        IF i >= line1 /\ i < line2
              /\ (line.useful < useful - i \/ line.color = <<>>)
        THEN Assign(line, useful - i, color)
        ELSE line)

colorize_parentof(L, vec, long_child_path, bg, maxuseful) ==
    MapVec(L, vec, LAMBDA i, line :
        LET plen == Len(line.color)
            long == Len(long_child_path)
            u    == bg + Quot((maxuseful - bg) * plen, long) - i
        IN  IF StartsWith(long_child_path, line.color) /\ plen > 0 /\ line.useful < u
            THEN [line EXCEPT !.useful = u]
            ELSE line)

colorize_minus_one(L, vec, line1, line2) ==
    MapVec(L, vec, LAMBDA i, line :
        IF i >= line1 /\ i < line2 THEN Assign(line, -1000, ColorDisabled) ELSE line)

\* for i in (0 .. len-1).rev(): each line reads the line below it after that
\* line was itself raised
RECURSIVE CommentsUpFrom(_, _, _)
CommentsUpFrom(L, vec, i) ==
    IF i < 0 THEN L
    ELSE LET this == vec[i + 1]
             u    == Coef(L[vec[i + 2]].useful, comments_propogate_up_coef)
         IN  CommentsUpFrom(
                 IF L[this].color = ColorComment /\ L[this].useful < u
                 THEN [L EXCEPT ![this].useful = u] ELSE L,
                 vec, i - 1)

colorize_comments_up(L, vec) == CommentsUpFrom(L, vec, Len(vec) - 2)

\* a faulty variant that divides by the coefficient
upgrade_lines_if_subsymbol(L, vec, line1_base0, line2_base0, subsymbol, downgrade_coef) ==
    MapVec(L, vec, LAMBDA i, line :
        IF i >= line1_base0 /\ i < line2_base0 /\ StartsWith(subsymbol, line.color)
              /\ ~ ((i = line2_base0 - 1 \/ i = line1_base0)
                      /\ Len(Trim(line.line_content)) = 1)
        THEN Assign(line, Quot(line.useful * 100, downgrade_coef), subsymbol)
        ELSE line)

downgrade_lines_if_subsymbol(L, vec, line1_base0, line2_base0, subsymbol, downgrade_coef) ==
    MapVec(L, vec, LAMBDA i, line :
        IF i >= line1_base0 /\ i < line2_base0 /\ StartsWith(subsymbol, line.color)
              /\ ~ ((i = line2_base0 - 1 \/ i = line1_base0)
                      /\ Len(Trim(line.line_content)) = 1)
        THEN Assign(line, Coef(line.useful, downgrade_coef), subsymbol)
        ELSE line)


(***************************************************************************)
(* postprocess_rag_load_ast_markup                                         *)
(***************************************************************************)
\* calculate_hash(&path) as f32 / u64::MAX as f32 / 100.0, a value in
\* [0, 0.01), here in thousandths: each path hashes to a value of its own
calculate_hash(path) ==
    CASE path = PathA -> 3
      [] path = PathB -> 5
      [] OTHER -> 8

LoadFile(file_name) ==
    LET path == canonical_path(file_name)
        text == get_file_text(path)
    IN  [markup |-> [file_content |-> text,
                     symbols_sorted_by_path_len |->
                         IF file_markup_ok(path) THEN file_markup_symbols(path) ELSE <<>>],
         cpath |-> path,
         cpath_symmetry_breaker |-> calculate_hash(path)]

\* HashMap<String, Arc<File>>: one entry per distinct file_name of a message
postprocess_rag_load_ast_markup(messages) ==
    [file_name \in {messages[k].file_name : k \in 1..Len(messages)} |->
        LoadFile(file_name)]


(***************************************************************************)
(* postprocess_rag_stage_3_6                                               *)
(***************************************************************************)
FileLinesOf(files, file_name) == StrLines(files[file_name].markup.file_content)

\* the Arc<FileLine>s created for one File, in line order
LineIdsOf(files, file_name) ==
    [n \in 1..Len(FileLinesOf(files, file_name)) |-> <<file_name, n - 1>>]

RECURSIVE ConcatIds(_, _, _)
ConcatIds(files, order, keep) ==
    IF order = <<>> THEN <<>>
    ELSE (IF Head(order) \in keep THEN LineIdsOf(files, Head(order)) ELSE <<>>)
         \o ConcatIds(files, Tail(order), keep)

\* 3. for fref in files.values(): order is the iteration order of the HashMap
NewLines(files) ==
    [id \in UNION { {<<f, n - 1>> : n \in 1..Len(FileLinesOf(files, f))} : f \in DOMAIN files } |->
        [fref |-> id[1], line_n |-> id[2],
         line_content |-> FileLinesOf(files, id[1])[id[2] + 1],
         useful |-> 0, color |-> <<>>, take |-> FALSE]]

NewLinesByUseful(files, order) == ConcatIds(files, order, DOMAIN files)

NewLinesInFiles(files, order) ==
    [cpath \in {files[f].cpath : f \in {g \in DOMAIN files : FileLinesOf(files, g) # <<>>}} |->
        ConcatIds(files, order, {f \in DOMAIN files : files[f].cpath = cpath})]

\* a loop  for linevec in lines_in_files.values_mut()  whose body Body(L, vec)
\* touches the lines of vec only: each line takes the result of its own file
ForEachFile(L, lines_in_files, Body(_, _)) ==
    LET R == [cpath \in DOMAIN lines_in_files |-> Body(L, lines_in_files[cpath])]
    IN  [id \in DOMAIN L |-> R[canonical_path(id[1])][id]]

RECURSIVE SymbolFill(_, _, _)
SymbolFill(L, vec, symbols) ==
    IF symbols = <<>> THEN L
    ELSE LET sym == Head(symbols)
             color == IF sym.symbol_type = "CommentDefinition" THEN ColorComment
                      ELSE sym.symbol_path
         IN  SymbolFill(
                 colorize_if_more_useful(L, vec, sym.full_range.start_row,
                     sym.full_range.end_row + 1, color, useful_symbol_default),
                 vec, Tail(symbols))

FillBackground(L, lines_in_files, files) ==
    ForEachFile(L, lines_in_files, LAMBDA L0, vec :
        LET fref == files[L0[vec[1]].fref]
        IN  colorize_if_more_useful(
                SymbolFill(L0, vec, fref.markup.symbols_sorted_by_path_len),
                vec, 0, Len(vec), ColorEmpty, useful_background))

\* omsg.line1 - 1 on usize with line1 = 0, overflow checks off: usize::MAX
UsizeMax == 2147483647

FindSymbol(symbols, guid) ==
    IF guid = Nil \/ ~ \E k \in 1..Len(symbols) : symbols[k].guid = guid THEN <<>>
    ELSE << symbols[CHOOSE k \in 1..Len(symbols) :
                /\ symbols[k].guid = guid
                /\ \A j \in 1..(k - 1) : symbols[j].guid # guid] >>

\* whether the message reaches  omsg.line1 - 1  with line1 = 0
MinusOneOverflows(lines_in_files, omsg) ==
    /\ canonical_path(omsg.file_name) \in DOMAIN lines_in_files
    /\ omsg.usefulness < 0
    /\ omsg.line1 = 0

\* 4. the body of  for omsg in origmsgs.iter()  (overflow, if any, wrapping)
ColorizeMessage(L, lines_in_files, files, omsg) ==
    LET cpath == canonical_path(omsg.file_name)
    IN  IF cpath \notin DOMAIN lines_in_files THEN L
        ELSE
        LET vec  == lines_in_files[cpath]
            fref == files[L[vec[1]].fref]
            L1   == color_with_gradient_type(L, vec, omsg)
            maybe_symbol == FindSymbol(fref.markup.symbols_sorted_by_path_len, omsg.symbol)
        IN  IF omsg.usefulness < 0
            THEN colorize_minus_one(L1, vec,
                     IF omsg.line1 = 0 THEN UsizeMax ELSE omsg.line1 - 1, omsg.line2)
            ELSE
            LET L2 ==
                  IF ~ omsg.is_body_important /\ maybe_symbol # <<>>
                  THEN LET sym == maybe_symbol[1]
                           L21 == colorize_if_more_useful(L1, vec, sym.full_range.start_row,
                                      sym.full_range.end_row + 1, sym.symbol_path, omsg.usefulness)
                       IN  IF HasParent(sym.symbol_path)
                           THEN colorize_parentof(L21, vec, ParentPath(sym.symbol_path),
                                    useful_symbol_default,
                                    Coef(omsg.usefulness, degrade_parent_coef))
                           ELSE L21
                  ELSE colorize_if_more_useful(L1, vec, Max(omsg.line1, 1) - 1, omsg.line2,
                           ColorNosymb, omsg.usefulness)
            IN  colorize_comments_up(L2, vec)

RECURSIVE DowngradeBodies(_, _, _)
DowngradeBodies(L, vec, symbols) ==
    IF symbols = <<>> THEN L
    ELSE LET sym  == Head(symbols)
             def0 == Max(sym.definition_range.start_row, sym.declaration_range.end_row + 1)
             def1 == sym.definition_range.end_row + 1
         IN  DowngradeBodies(
                 IF sym.definition_range.end_byte # 0 /\ def1 > def0
                 THEN downgrade_lines_if_subsymbol(L, vec, def0, def1,
                          sym.symbol_path \o BodySuffix, degrade_body_coef)
                 ELSE L,
                 vec, Tail(symbols))

\* 5. Downgrade sub-symbols and uninteresting regions
DowngradeAll(L, lines_in_files, files) ==
    ForEachFile(L, lines_in_files, LAMBDA L0, vec :
        DowngradeBodies(L0, vec, files[L0[vec[1]].fref].markup.symbols_sorted_by_path_len))

\* a faulty variant that gives a line the lesser of its neighbours' scores
\* whatever its own
CloseSmallGapsLowering(setting, L, lines_in_files) ==
    IF ~ setting THEN L
    ELSE ForEachFile(L, lines_in_files, LAMBDA L0, vec :
            MapVec(L0, vec, LAMBDA i, line :
                IF i >= 1 /\ i < Len(vec) - 1
                THEN [line EXCEPT !.useful =
                         Min(L0[vec[i]].useful, L0[vec[i + 2]].useful)]
                ELSE line))

\* 6. removes one-line holes, reading the scores as they were before the
\* pass, if settings.close_small_gaps
CloseSmallGapsIf(setting, L, lines_in_files) ==
    IF ~ setting THEN L
    ELSE ForEachFile(L, lines_in_files, LAMBDA L0, vec :
            MapVec(L0, vec, LAMBDA i, line :
                IF i >= 1 /\ i < Len(vec) - 1
                THEN [line EXCEPT !.useful =
                         Max(line.useful,
                             Min(L0[vec[i]].useful, L0[vec[i + 2]].useful))]
                ELSE line))

CloseSmallGaps(L, lines_in_files) == CloseSmallGapsIf(close_small_gaps, L, lines_in_files)


(***************************************************************************)
(* postprocess_rag_stage_7_9                                               *)
(***************************************************************************)
SortKey(L, files, id) == L[id].useful + files[L[id].fref].cpath_symmetry_breaker

\* |a, b| bv.partial_cmp(&av): a stays before b unless b's key is greater
ComesBefore(av, bv) == av >= bv

RECURSIVE InsertByKey(_, _, _, _)
InsertByKey(L, files, sorted, id) ==
    IF sorted = <<>> THEN <<id>>
    ELSE IF ComesBefore(SortKey(L, files, Head(sorted)), SortKey(L, files, id))
         THEN <<Head(sorted)>> \o InsertByKey(L, files, Tail(sorted), id)
         ELSE <<id>> \o sorted

RECURSIVE StableSortInto(_, _, _, _)
StableSortInto(L, files, sorted, rest) ==
    IF rest = <<>> THEN sorted
    ELSE StableSortInto(L, files, InsertByKey(L, files, sorted, Head(rest)), Tail(rest))

\* 7. lines_by_useful.sort_by(..): a stable sort, descending by key
SortByUseful(L, files, lines_by_useful) == StableSortInto(L, files, <<>>, lines_by_useful)

InSeq(seq, x) == \E k \in 1..Len(seq) : seq[k] = x

\* what one line costs: its tokens, plus the file overhead when its file is
\* new and single_file_mode is off
LineCost(L, files, id, mentioned, single_file_mode) ==
    LET cpath == files[L[id].fref].cpath
    IN  count_tokens(L[id].line_content)
        + (IF ~ InSeq(mentioned, cpath) /\ ~ single_file_mode
           THEN count_tokens(cpath) + FileOverhead ELSE 0)

\* a faulty variant that puts a new file first
MentionFirst(mentioned, cpath) ==
    IF InSeq(mentioned, cpath) THEN mentioned ELSE <<cpath>> \o mentioned

\* files_mentioned_set / files_mentioned_sequence: a new file goes last
Mention(mentioned, cpath) ==
    IF InSeq(mentioned, cpath) THEN mentioned ELSE Append(mentioned, cpath)

\* a faulty variant that leaves the cost of the line at hand out of the test
FitsWithoutLine(tokens_count, ntokens, tokens_limit) == ~ (tokens_count > tokens_limit)

\* a faulty variant that needs one token to spare
FitsWithSpare(tokens_count, ntokens, tokens_limit) ==
    ~ (tokens_count + ntokens >= tokens_limit)

\* if tokens_count + ntokens > tokens_limit { break; }
Fits(tokens_count, ntokens, tokens_limit) == ~ (tokens_count + ntokens > tokens_limit)

\* a faulty variant that also passes over comment lines
SkippedOrComment(line) == line.useful <= take_floor \/ line.color = ColorComment

Skipped(line) == line.useful <= take_floor

\* a faulty variant that passes over a line that does not fit and goes on
TakeStepSkipping(sel, files, sorted, tokens_limit, single_file_mode) ==
    LET id      == sorted[sel.i]
        line    == sel.lines[id]
        cpath   == files[line.fref].cpath
        ntokens == LineCost(sel.lines, files, id, sel.mentioned, single_file_mode)
        seen    == Mention(sel.mentioned, cpath)
    IN  IF Skipped(line) THEN [sel EXCEPT !.i = @ + 1]
        ELSE IF ~ Fits(sel.tokens_count, ntokens, tokens_limit)
             THEN [sel EXCEPT !.mentioned = seen, !.i = @ + 1]
             ELSE [sel EXCEPT !.mentioned = seen, !.i = @ + 1,
                              !.tokens_count = @ + ntokens,
                              !.lines = [@ EXCEPT ![id].take = TRUE]]

\* 8. one iteration of  for lineref in lines_by_useful.iter_mut()
\* sel = [lines, tokens_count, mentioned, i, stopped]
TakeStep(sel, files, sorted, tokens_limit, single_file_mode) ==
    LET id      == sorted[sel.i]
        line    == sel.lines[id]
        cpath   == files[line.fref].cpath
        ntokens == LineCost(sel.lines, files, id, sel.mentioned, single_file_mode)
        seen    == Mention(sel.mentioned, cpath)
    IN  IF Skipped(line) THEN [sel EXCEPT !.i = @ + 1]
        ELSE IF ~ Fits(sel.tokens_count, ntokens, tokens_limit)
             THEN [sel EXCEPT !.mentioned = seen, !.stopped = TRUE]
             ELSE [sel EXCEPT !.mentioned = seen, !.i = @ + 1,
                              !.tokens_count = @ + ntokens,
                              !.lines = [@ EXCEPT ![id].take = TRUE]]

SelStart(L) == [lines |-> L, tokens_count |-> 0, mentioned |-> <<>>, i |-> 1, stopped |-> FALSE]

SelDone(sel, sorted) == sel.stopped \/ sel.i > Len(sorted)

RECURSIVE TakeAll(_, _, _, _, _)
TakeAll(sel, files, sorted, tokens_limit, single_file_mode) ==
    IF SelDone(sel, sorted) THEN sel
    ELSE TakeAll(TakeStep(sel, files, sorted, tokens_limit, single_file_mode),
                 files, sorted, tokens_limit, single_file_mode)

\* a faulty variant that writes an elision for two or more lines only
RECURSIVE EmitFromWide(_, _, _, _)
EmitFromWide(L, vec, i, st) ==
    IF i >= Len(vec) THEN st
    ELSE LET line == L[vec[i + 1]]
             st1  == [st EXCEPT !.last_line = i]
         IN  IF ~ line.take THEN EmitFromWide(L, vec, i + 1, st1)
             ELSE EmitFromWide(L, vec, i + 1,
                    [st1 EXCEPT
                       !.anything = TRUE,
                       !.first_line = IF st.first_line = 0 THEN i ELSE @,
                       !.out = (IF i > st.prev_line + 2 THEN @ \o Elision ELSE @)
                               \o line.line_content \o <<"\n">>,
                       !.prev_line = i])

\* 9. the loop over the lines of one file
\* st = [out, first_line, last_line, prev_line, anything]
RECURSIVE EmitFrom(_, _, _, _)
EmitFrom(L, vec, i, st) ==
    IF i >= Len(vec) THEN st
    ELSE LET line == L[vec[i + 1]]
             st1  == [st EXCEPT !.last_line = i]
         IN  IF ~ line.take THEN EmitFrom(L, vec, i + 1, st1)
             ELSE EmitFrom(L, vec, i + 1,
                    [st1 EXCEPT
                       !.anything = TRUE,
                       !.first_line = IF st.first_line = 0 THEN i ELSE @,
                       !.out = (IF i > st.prev_line + 1 THEN @ \o Elision ELSE @)
                               \o line.line_content \o <<"\n">>,
                       !.prev_line = i])

EmitStart == [out |-> <<>>, first_line |-> 0, last_line |-> 0, prev_line |-> 0,
              anything |-> FALSE]

\* merged.push(ContextFile { .. }) after the trailing elision
EmitRecord(cpath, st) ==
    [file_name |-> cpath,
     file_content |-> IF st.last_line > st.prev_line + 1 THEN st.out \o Elision ELSE st.out,
     line1 |-> st.first_line, line2 |-> st.last_line,
     symbol |-> Nil, gradient_type |-> -1, usefulness |-> 0,
     is_body_important |-> FALSE]

\* a faulty variant that pushes a ContextFile for every mentioned file
EmitFileAlways(L, lines_in_files, cpath) ==
    << EmitRecord(cpath, EmitFrom(L, lines_in_files[cpath], 0, EmitStart)) >>

\* the ContextFile pushed for one mentioned file, or nothing
EmitFile(L, lines_in_files, cpath) ==
    LET st == EmitFrom(L, lines_in_files[cpath], 0, EmitStart)
    IN  IF ~ st.anything THEN <<>> ELSE << EmitRecord(cpath, st) >>

RECURSIVE EmitAll(_, _, _)
EmitAll(L, lines_in_files, mentioned) ==
    IF mentioned = <<>> THEN <<>>
    ELSE EmitFile(L, lines_in_files, Head(mentioned))
         \o EmitAll(L, lines_in_files, Tail(mentioned))


(***************************************************************************)
(* max_tokens_for_rag_chat and the budget of run_at_commands               *)
(***************************************************************************)
RESERVE_FOR_QUESTION_AND_FOLLOWUP == 1024

\* the range of i32
MaxI32 == 2147483647
MinI32 == (-2147483647) - 1

\* n as i32, for a usize n below 2^31 (every usize of this model): the cast
\* keeps the value
AsI32(n) == n

\* a - b on i32: the difference, and whether it left the range of i32; out
\* of range, value is what two's complement arithmetic leaves
SubI32(a, b) ==
    IF b >= 0 /\ a < MinI32 + b
    THEN [overflow |-> TRUE, value |-> (((a - MinI32) - b) + MaxI32) + 1]
    ELSE IF b < 0 /\ a > MaxI32 + b
    THEN [overflow |-> TRUE, value |-> (((a - MaxI32) - 1) - b) + MinI32]
    ELSE [overflow |-> FALSE, value |-> a - b]

\* (n_ctx as i32 - maxgen as i32 - RESERVE as i32): both subtractions
MaxTokensDifference(n_ctx, maxgen) ==
    LET first == SubI32(AsI32(n_ctx), AsI32(maxgen))
        second == SubI32(first.value, AsI32(RESERVE_FOR_QUESTION_AND_FOLLOWUP))
    IN  [overflow |-> first.overflow \/ second.overflow, value |-> second.value]

\* max_tokens_for_rag_chat in a build without overflow checks
max_tokens_for_rag_chat(n_ctx, maxgen) == Max(MaxTokensDifference(n_ctx, maxgen).value, 0)

\* ChatMessage
ChatMessage(role, content) == [role |-> role, content |-> content]

\* content.contains("@")
ContainsAt(content) == \E k \in 1..Len(content) : content[k] = "@"

\* a faulty variant that gives each message the whole reserve
context_limit_undivided(reserve_for_context, messages_with_at, content_n_tokens) ==
    IF reserve_for_context <= content_n_tokens THEN 0
    ELSE reserve_for_context - content_n_tokens

\* context_limit of one message: its share of the reserve less its own tokens
context_limit_of(reserve_for_context, messages_with_at, content_n_tokens) ==
    LET share == reserve_for_context \div Max(messages_with_at, 1)
    IN  IF share <= content_n_tokens THEN 0 ELSE share - content_n_tokens

(***************************************************************************)
(* Inputs                                                                  *)
(***************************************************************************)
MaxHints == 2
MaxBudget == 14

HintSet ==
    { Hint(PathB, 2, 2, Nil, -1000, -1, TRUE),
      Hint(PathB, 2, 2, Nil, 80000, 0, TRUE),
      Hint(PathB, 0, 0, Nil, -1000, 0, FALSE),
      Hint(PathB, 3, 9, Nil, 40000, 4, TRUE),
      Hint(PathGone, 1, 1, Nil, 40000, 0, FALSE),
      Hint(PathA, 1, 1, GuidUnknown, 40000, 0, FALSE),
      Hint(PathB, 4, 2, Nil, 40000, 0, TRUE),
      Hint(PathA, 5, 3, GuidAf, 40000, -1, FALSE),
      Hint(PathA, 2, 6, GuidA, 30000, -1, FALSE),
      Hint(PathB, 1, 2, Nil, 3000, 2, TRUE),
      Hint(PathA, 4, 4, Nil, 3000, 3, TRUE),
      Hint(PathAlias, 1, 1, Nil, 40000, 1, TRUE),
      Hint(PathB, 1, 1, Nil, 0, 0, TRUE) }

HintLists == UNION { [1..n -> HintSet] : n \in 0..MaxHints }

IterationOrders(S) ==
    { f \in [1..Cardinality(S) -> S] : \A i, j \in 1..Cardinality(S) : f[i] = f[j] => i = j }

MaxMessages == 2

\* the texts of the chat messages: two with at-commands, one without, one blank
ChatContents ==
    { <<"@", "f">>, <<"@", "f", " ", "x", " ", "y">>, <<"h", "i">>, <<" ">> }

ChatMessages == { ChatMessage(role, content) : role \in {"user", "assistant"},
                                               content \in ChatContents }

MessageLists == UNION { [1..n -> ChatMessages] : n \in 0..MaxMessages }

\* context sizes and generation lengths, up to the largest below 2^31
ContextSizes == {0, 1030, 2048, MaxI32}

GenerationLengths == {0, 1024, MaxI32}

(***************************************************************************)
(* State                                                                   *)
(***************************************************************************)
VARIABLES
    origmsgs,                  \* messages: &Vec<ContextFile>
    files_markup,              \* HashMap<String, Arc<File>>
    files_order,               \* the order in which files_markup iterates
    lines,                     \* the FileLines behind the Arcs
    lines_in_files,            \* HashMap<PathBuf, Vec<Arc<FileLine>>>
    lines_by_useful,           \* Vec<Arc<FileLine>>
    hint_i,                    \* position of  for omsg in origmsgs.iter()
    tokens_limit,
    single_file_mode,
    tokens_count,
    files_mentioned_sequence,
    line_i,                    \* position of  for lineref in lines_by_useful
    merged,                    \* Vec<ContextFile>, the result
    pc,
    n_ctx,                     \* run_at_commands
    maxgen,
    original_messages,
    reserve_for_context,
    user_msg_starts,
    messages_with_at,
    msg_idx,                   \* position of  for msg_idx in user_msg_starts..len
    context_limits,            \* each call of postprocess_at_results2 so far
    rebuilt_messages,
    chat_pc

(***************************************************************************)
(* agent_db/db_cmessage.rs: the cmessages table, the pubsub_events table,  *)
(* the update requests in flight and one subscription stream               *)
(***************************************************************************)
VARIABLES
    cmessages,                 \* table cmessages: key -> row
    pubsub_events,             \* table pubsub_events; pubevent_id is the index
    requests,                  \* handle_db_v1_cmessage_update calls
    write_log,                 \* history: every row written, in commit order
    sub_pc,                    \* handle_db_v1_cmessages_sub and its stream
    pre_existing_cmessages,
    last_event_id,
    cursor_at_sub,             \* history: last_event_id as first read
    updated_cmessage_keys,     \* keys of the last poll not yet fetched
    delivered,                 \* the events the stream has yielded
    polled_ids                 \* history: pubevent_ids the polls went through

dbVars == <<cmessages, pubsub_events, requests, write_log, sub_pc,
            pre_existing_cmessages, last_event_id, cursor_at_sub,
            updated_cmessage_keys, delivered, polled_ids>>

(***************************************************************************)
(* HasRagResults and run_tools                                             *)
(***************************************************************************)
VARIABLES
    stream_back_to_user,       \* HasRagResults { was_sent, in_json }
    pushed,                    \* history: every value given to push_in_json
    responses,                 \* history: what each response_streaming returned
    tools_messages,            \* run_tools: original_messages
    tools_context_limit,       \* run_tools: context_limit
    t_call_i,                  \* position of  for t_call in ass_msg.tool_calls
    context_messages,
    for_postprocessing,
    tools_result,              \* the bool run_tools returns with context_messages
    tools_pc

streamVars == <<stream_back_to_user, pushed, responses>>
toolsInputVars == <<tools_messages, tools_context_limit>>
toolsVars == <<toolsInputVars, t_call_i, context_messages, for_postprocessing,
               tools_result, tools_pc>>

restVars == <<dbVars, streamVars, toolsVars>>

vars == <<origmsgs, files_markup, files_order, lines, lines_in_files, lines_by_useful,
          hint_i, tokens_limit, single_file_mode, tokens_count,
          files_mentioned_sequence, line_i, merged, pc,
          n_ctx, maxgen, original_messages, reserve_for_context, user_msg_starts,
          messages_with_at, msg_idx, context_limits, rebuilt_messages, chat_pc,
          cmessages, pubsub_events, requests, write_log, sub_pc,
          pre_existing_cmessages, last_event_id, cursor_at_sub,
          updated_cmessage_keys, delivered, polled_ids,
          stream_back_to_user, pushed, responses, tools_messages,
          tools_context_limit, t_call_i, context_messages, for_postprocessing,
          tools_result, tools_pc>>

inputVars == <<origmsgs>>
matrixVars == <<files_markup, files_order, lines_in_files, lines_by_useful>>
selectVars == <<tokens_limit, single_file_mode, tokens_count, files_mentioned_sequence,
                line_i>>
ragVars == <<inputVars, matrixVars, lines, hint_i, selectVars, merged, pc>>
chatInputVars == <<n_ctx, maxgen, original_messages>>
chatVars == <<chatInputVars, reserve_for_context, user_msg_starts, messages_with_at,
              msg_idx, context_limits, rebuilt_messages, chat_pc>>

\* run_at_commands not called
ChatIdle ==
    /\ n_ctx = 0
    /\ maxgen = 0
    /\ original_messages = <<>>
    /\ reserve_for_context = 0
    /\ user_msg_starts = 0
    /\ messages_with_at = 0
    /\ msg_idx = 0
    /\ context_limits = <<>>
    /\ rebuilt_messages = <<>>
    /\ chat_pc = "idle"

\* no request to the database, no subscription
DbIdle ==
    /\ cmessages = <<>>
    /\ pubsub_events = <<>>
    /\ requests = <<>>
    /\ write_log = <<>>
    /\ sub_pc = "idle"
    /\ pre_existing_cmessages = <<>>
    /\ last_event_id = 0
    /\ cursor_at_sub = 0
    /\ updated_cmessage_keys = <<>>
    /\ delivered = <<>>
    /\ polled_ids = <<>>

\* HasRagResults::new(), no call yet
StreamIdle ==
    /\ stream_back_to_user = [was_sent |-> FALSE, in_json |-> <<>>]
    /\ pushed = <<>>
    /\ responses = <<>>

\* run_tools not called
ToolsIdle ==
    /\ tools_messages = <<>>
    /\ tools_context_limit = 0
    /\ t_call_i = 0
    /\ context_messages = <<>>
    /\ for_postprocessing = <<>>
    /\ tools_result = FALSE
    /\ tools_pc = "idle"

RestIdle == DbIdle /\ StreamIdle /\ ToolsIdle

Init ==
    /\ origmsgs \in HintLists
    /\ files_markup = <<>>
    /\ files_order = <<>>
    /\ lines = <<>>
    /\ lines_in_files = <<>>
    /\ lines_by_useful = <<>>
    /\ hint_i = 1
    /\ tokens_limit = 0
    /\ single_file_mode = FALSE
    /\ tokens_count = 0
    /\ files_mentioned_sequence = <<>>
    /\ line_i = 1
    /\ merged = <<>>
    /\ pc = "load"
    /\ ChatIdle
    /\ RestIdle

(***************************************************************************)
(* postprocess_at_results2, step by step                                   *)
(***************************************************************************)
\* 2. the HashMap of files; it iterates its entries in an order of its own
LoadAstMarkup ==
    /\ pc = "load"
    /\ files_markup' = postprocess_rag_load_ast_markup(origmsgs)
    /\ files_order' \in IterationOrders(DOMAIN files_markup')
    /\ pc' = "stage3"
    /\ UNCHANGED <<inputVars, lines, lines_in_files, lines_by_useful, hint_i,
                   selectVars, merged>>
    /\ UNCHANGED <<chatVars, restVars>>

\* 3. the line matrix and the background fill
Stage3 ==
    /\ pc = "stage3"
    /\ lines_by_useful' = NewLinesByUseful(files_markup, files_order)
    /\ lines_in_files' = NewLinesInFiles(files_markup, files_order)
    /\ lines' = FillBackground(NewLines(files_markup),
                               NewLinesInFiles(files_markup, files_order), files_markup)
    /\ pc' = "stage4"
    /\ UNCHANGED <<inputVars, files_markup, files_order, hint_i, selectVars, merged>>
    /\ UNCHANGED <<chatVars, restVars>>

\* 4. one message of origmsgs
Stage4 ==
    /\ pc = "stage4"
    /\ hint_i <= Len(origmsgs)
    /\ lines' = ColorizeMessage(lines, lines_in_files, files_markup, origmsgs[hint_i])
    /\ hint_i' = hint_i + 1
    /\ UNCHANGED <<inputVars, matrixVars, selectVars, merged, pc>>
    /\ UNCHANGED <<chatVars, restVars>>

\* 4. omsg.line1 - 1 with line1 = 0 in a build with overflow checks: a panic
Stage4Overflow ==
    /\ pc = "stage4"
    /\ hint_i <= Len(origmsgs)
    /\ MinusOneOverflows(lines_in_files, origmsgs[hint_i])
    /\ pc' = "panicked"
    /\ UNCHANGED <<inputVars, matrixVars, lines, hint_i, selectVars, merged>>
    /\ UNCHANGED <<chatVars, restVars>>

Stage5 ==
    /\ pc = "stage4"
    /\ hint_i > Len(origmsgs)
    /\ lines' = DowngradeAll(lines, lines_in_files, files_markup)
    /\ pc' = "stage6"
    /\ UNCHANGED <<inputVars, matrixVars, hint_i, selectVars, merged>>
    /\ UNCHANGED <<chatVars, restVars>>

Stage6 ==
    /\ pc = "stage6"
    /\ lines' = CloseSmallGaps(lines, lines_in_files)
    /\ pc' = "stage7"
    /\ UNCHANGED <<inputVars, matrixVars, hint_i, selectVars, merged>>
    /\ UNCHANGED <<chatVars, restVars>>

\* 7. entry of postprocess_rag_stage_7_9 with its tokens_limit and
\* single_file_mode, and the sort
Stage7 ==
    /\ pc = "stage7"
    /\ lines_by_useful' = SortByUseful(lines, files_markup, lines_by_useful)
    /\ \E limit \in 0..MaxBudget, single \in BOOLEAN :
          /\ tokens_limit' = limit
          /\ single_file_mode' = single
    /\ pc' = "stage8"
    /\ UNCHANGED <<inputVars, files_markup, files_order, lines, lines_in_files, hint_i,
                   tokens_count, files_mentioned_sequence, line_i, merged>>
    /\ UNCHANGED <<chatVars, restVars>>

Sel == [lines |-> lines, tokens_count |-> tokens_count,
        mentioned |-> files_mentioned_sequence, i |-> line_i, stopped |-> FALSE]

\* 8. the loop over lines_by_useful, left at the break or after the last line
Stage8 ==
    /\ pc = "stage8"
    /\ LET sel == TakeAll(Sel, files_markup, lines_by_useful, tokens_limit, single_file_mode)
       IN  /\ lines' = sel.lines
           /\ tokens_count' = sel.tokens_count
           /\ files_mentioned_sequence' = sel.mentioned
           /\ line_i' = sel.i
           /\ pc' = "stage9"
    /\ UNCHANGED <<inputVars, matrixVars, hint_i, tokens_limit, single_file_mode, merged>>
    /\ UNCHANGED <<chatVars, restVars>>

\* 9. the loop over files_mentioned_sequence, and the return of merged
Stage9 ==
    /\ pc = "stage9"
    /\ merged' = EmitAll(lines, lines_in_files, files_mentioned_sequence)
    /\ pc' = "done"
    /\ UNCHANGED <<inputVars, matrixVars, lines, hint_i, selectVars>>
    /\ UNCHANGED <<chatVars, restVars>>

Next ==
    \/ LoadAstMarkup
    \/ Stage3
    \/ Stage4
    \/ Stage4Overflow
    \/ Stage5
    \/ Stage6
    \/ Stage7
    \/ Stage8
    \/ Stage9

Spec == Init /\ [][Next]_vars


(***************************************************************************)
(* run_at_commands, step by step                                           *)
(***************************************************************************)
\* postprocess_at_results2 not called
RagIdle ==
    /\ origmsgs = <<>>
    /\ files_markup = <<>>
    /\ files_order = <<>>
    /\ lines = <<>>
    /\ lines_in_files = <<>>
    /\ lines_by_useful = <<>>
    /\ hint_i = 1
    /\ tokens_limit = 0
    /\ single_file_mode = FALSE
    /\ tokens_count = 0
    /\ files_mentioned_sequence = <<>>
    /\ line_i = 1
    /\ merged = <<>>
    /\ pc = "idle"

ChatInit ==
    /\ n_ctx \in ContextSizes
    /\ maxgen \in GenerationLengths
    /\ original_messages \in MessageLists
    /\ reserve_for_context = 0
    /\ user_msg_starts = 0
    /\ messages_with_at = 0
    /\ msg_idx = 0
    /\ context_limits = <<>>
    /\ rebuilt_messages = <<>>
    /\ chat_pc = "reserve"
    /\ RagIdle
    /\ RestIdle

\* let reserve_for_context = max_tokens_for_rag_chat(n_ctx, maxgen), an
\* overflow of the i32 subtraction, if any, wrapping
MaxTokensForRagChat ==
    /\ chat_pc = "reserve"
    /\ reserve_for_context' = max_tokens_for_rag_chat(n_ctx, maxgen)
    /\ user_msg_starts' = Len(original_messages)
    /\ messages_with_at' = 0
    /\ chat_pc' = "scan"
    /\ UNCHANGED <<chatInputVars, msg_idx, context_limits, rebuilt_messages>>
    /\ UNCHANGED <<ragVars, restVars>>

\* the i32 subtraction overflowing in a build with overflow checks: a panic
MaxTokensOverflow ==
    /\ chat_pc = "reserve"
    /\ MaxTokensDifference(n_ctx, maxgen).overflow
    /\ chat_pc' = "panicked"
    /\ UNCHANGED <<chatInputVars, reserve_for_context, user_msg_starts, messages_with_at,
                   msg_idx, context_limits, rebuilt_messages>>
    /\ UNCHANGED <<ragVars, restVars>>

\* while user_msg_starts > 0: one more trailing message with role "user"
ScanBack ==
    /\ chat_pc = "scan"
    /\ user_msg_starts > 0
    /\ original_messages[user_msg_starts].role = "user"
    /\ user_msg_starts' = user_msg_starts - 1
    /\ messages_with_at' = messages_with_at
           + (IF ContainsAt(original_messages[user_msg_starts].content) THEN 1 ELSE 0)
    /\ UNCHANGED <<chatInputVars, reserve_for_context, msg_idx, context_limits,
                   rebuilt_messages, chat_pc>>
    /\ UNCHANGED <<ragVars, restVars>>

\* the end of the while loop, by its condition or by break
ScanEnd ==
    /\ chat_pc = "scan"
    /\ IF user_msg_starts = 0 THEN TRUE
       ELSE original_messages[user_msg_starts].role # "user"
    /\ rebuilt_messages' = SubSeq(original_messages, 1, user_msg_starts)
    /\ msg_idx' = user_msg_starts
    /\ chat_pc' = "annotate"
    /\ UNCHANGED <<chatInputVars, reserve_for_context, user_msg_starts, messages_with_at,
                   context_limits>>
    /\ UNCHANGED <<ragVars, restVars>>

\* execute_at_commands_in_query: whether it found any ContextFile, and the
\* content it leaves, with the at-commands kept or taken out
ExecOutputs(content) ==
    IF ContainsAt(content)
    THEN { [context_files |-> found, content |-> left] :
               found \in BOOLEAN,
               left \in {content, SelectSeq(content, LAMBDA c : c # "@")} }
    ELSE { [context_files |-> FALSE, content |-> content] }

\* the tokens of the Vec<ContextFile> postprocess_at_results2 returns: none
\* without input, at most context_limit otherwise
PostprocessedTokens(context_files, context_limit) ==
    IF context_files THEN {0, context_limit} ELSE {0}

\* one message of  for msg_idx in user_msg_starts..original_messages.len()
Annotate ==
    /\ chat_pc = "annotate"
    /\ msg_idx < Len(original_messages)
    /\ LET msg == original_messages[msg_idx + 1]
           content_n_tokens == count_tokens(msg.content)
           context_limit == context_limit_of(reserve_for_context, messages_with_at,
                                             content_n_tokens)
       IN  \E exec \in ExecOutputs(msg.content) :
           \E post_processed \in PostprocessedTokens(exec.context_files, context_limit) :
               /\ context_limits' = Append(context_limits,
                      [msg_idx |-> msg_idx, context_limit |-> context_limit,
                       post_processed |-> post_processed])
               /\ rebuilt_messages' = rebuilt_messages
                      \o (IF post_processed > 0
                          THEN << ChatMessage("context_file", <<"[", "]">>) >> ELSE <<>>)
                      \o (IF Len(Trim(exec.content)) > 0
                          THEN << ChatMessage(msg.role, exec.content) >> ELSE <<>>)
    /\ msg_idx' = msg_idx + 1
    /\ UNCHANGED <<chatInputVars, reserve_for_context, user_msg_starts, messages_with_at,
                   chat_pc>>
    /\ UNCHANGED <<ragVars, restVars>>

\* return (rebuilt_messages.clone(), user_msg_starts)
ChatReturn ==
    /\ chat_pc = "annotate"
    /\ msg_idx = Len(original_messages)
    /\ chat_pc' = "returned"
    /\ UNCHANGED <<chatInputVars, reserve_for_context, user_msg_starts, messages_with_at,
                   msg_idx, context_limits, rebuilt_messages>>
    /\ UNCHANGED <<ragVars, restVars>>

ChatNext ==
    \/ MaxTokensForRagChat
    \/ MaxTokensOverflow
    \/ ScanBack
    \/ ScanEnd
    \/ Annotate
    \/ ChatReturn

SpecChat == ChatInit /\ [][ChatNext]_vars

(***************************************************************************)
(* postprocess_at_results2 as one function of its inputs (the overflow of  *)
(* line1 - 1, if any, wrapping): the stages above, composed                *)
(***************************************************************************)
RECURSIVE ColorizeAll(_, _, _, _)
ColorizeAll(L, lif, files, msgs) ==
    IF msgs = <<>> THEN L
    ELSE ColorizeAll(ColorizeMessage(L, lif, files, Head(msgs)), lif, files, Tail(msgs))

\* stages 3 to 6 of postprocess_rag_stage_3_6 on loaded files: the scored lines
Colorized(files, lif, msgs) ==
    LET L3 == FillBackground(NewLines(files), lif, files)
        L4 == ColorizeAll(L3, lif, files, msgs)
    IN  CloseSmallGaps(DowngradeAll(L4, lif, files), lif)

Postprocess(msgs, order, limit, single) ==
    LET files  == postprocess_rag_load_ast_markup(msgs)
        lif    == NewLinesInFiles(files, order)
        L6     == Colorized(files, lif, msgs)
        sorted == SortByUseful(L6, files, NewLinesByUseful(files, order))
        sel    == TakeAll(SelStart(L6), files, sorted, limit, single)
    IN  [lines |-> sel.lines, stopped |-> sel.stopped,
         merged |-> EmitAll(sel.lines, lif, sel.mentioned)]

(***************************************************************************)
(* agent_db/db_cmessage.rs                                                 *)
(*                                                                         *)
(* A CMessage is a row of the table cmessages: its key (cthread id, alt,   *)
(* num) and its columns, of which cmessage_usage_model and cmessage_json   *)
(* stand for all; the others are read, merged and written the same way.    *)
(* Every section of code that runs with the connection mutex held is one   *)
(* step; requests run on the threads of the runtime, so the steps of       *)
(* different requests interleave.                                          *)
(***************************************************************************)
MaxRequests == 2

KeyFields == {"cmessage_belongs_to_cthread_id", "cmessage_alt", "cmessage_num"}

CMessageKey(cthread_id, alt, num) ==
    [cmessage_belongs_to_cthread_id |-> cthread_id, cmessage_alt |-> alt,
     cmessage_num |-> num]

CMessageKeys ==
    {CMessageKey("t1", 0, 0), CMessageKey("t1", 0, 1), CMessageKey("t2", 0, 0)}

KeyOf(json) == [f \in KeyFields |-> json[f]]

\* CMessage { key, ..Default::default() }
DefaultCMessage(key) ==
    key @@ [cmessage_usage_model |-> "", cmessage_json |-> ""]

\* the bodies of the update requests: a key and the columns to set
IncomingJsons ==
    {key @@ patch :
        key \in CMessageKeys,
        patch \in {[cmessage_json |-> "hello"],
                   [cmessage_usage_model |-> "gpt"]}}

\* crate::agent_db::merge_json: the fields of b over those of a
merge_json(a, b) ==
    [f \in DOMAIN a \cup DOMAIN b |-> IF f \in DOMAIN b THEN b[f] ELSE a[f]]

\* SELECT * FROM cmessages WHERE key: Ok(row) as <<row>>, Err as <<>>
cmessage_get(table, key) ==
    IF key \in DOMAIN table THEN <<table[key]>> ELSE <<>>

\* existing row or default, merged with the request
MergedRecord(table, incoming_json) ==
    LET found == cmessage_get(table, KeyOf(incoming_json))
        cmessage_rec == IF found # <<>> THEN found[1]
                        ELSE DefaultCMessage(KeyOf(incoming_json))
    IN  merge_json(cmessage_rec, incoming_json)

\* the index of the last write of key in the log, 0 if none
RECURSIVE LastWrite(_, _)
LastWrite(log, key) ==
    IF log = <<>> THEN 0
    ELSE IF KeyOf(log[Len(log)]) = key THEN Len(log)
    ELSE LastWrite(SubSeq(log, 1, Len(log) - 1), key)

\* ORDER BY cmessage_num, cmessage_alt
RowBefore(a, b) ==
    \/ a.cmessage_num < b.cmessage_num
    \/ a.cmessage_num = b.cmessage_num /\ a.cmessage_alt < b.cmessage_alt

RECURSIVE RowsInOrder(_)
RowsInOrder(keys) ==
    IF keys = {} THEN <<>>
    ELSE LET first == CHOOSE k \in keys : \A o \in keys \ {k} : RowBefore(k, o)
         IN  <<first>> \o RowsInOrder(keys \ {first})

\* SELECT * FROM cmessages WHERE cmessage_belongs_to_cthread_id = ?1 ORDER BY ..
\* each row with the number of the write that stored it
SelectThread(table, log, cthread_id) ==
    LET keys == RowsInOrder({k \in DOMAIN table :
                                k.cmessage_belongs_to_cthread_id = cthread_id})
    IN  [i \in 1..Len(keys) |->
            [cmessage_rec |-> table[keys[i]], write_n |-> LastWrite(log, keys[i])]]

\* SELECT COALESCE(MAX(pubevent_id), 0) FROM pubsub_events
MaxEventId(events) == Len(events)

PubEvent(channel, action, json) ==
    [pubevent_channel |-> channel, pubevent_action |-> action, pubevent_json |-> json]

RECURSIVE PollFrom(_, _, _)
PollFrom(events, id, acc) ==
    IF id > Len(events) THEN acc
    ELSE IF events[id].pubevent_channel = "cmessage"
            /\ events[id].pubevent_action \in {"update", "delete"}
    THEN PollFrom(events, id + 1,
             [seen_id |-> id,
              ids     |-> Append(acc.ids, id),
              deleted_cmessage_keys |->
                  IF events[id].pubevent_action = "delete"
                  THEN Append(acc.deleted_cmessage_keys, events[id].pubevent_json)
                  ELSE acc.deleted_cmessage_keys,
              updated_cmessage_keys |->
                  IF events[id].pubevent_action = "update"
                  THEN Append(acc.updated_cmessage_keys, events[id].pubevent_json)
                  ELSE acc.updated_cmessage_keys])
    ELSE PollFrom(events, id + 1, acc)

PollStart(seen_id) ==
    [seen_id |-> seen_id, ids |-> <<>>,
     deleted_cmessage_keys |-> <<>>, updated_cmessage_keys |-> <<>>]

\* a faulty variant whose query is  WHERE pubevent_id > ?1 + 1
cmessage_subscription_poll_late(events, seen_id) ==
    PollFrom(events, seen_id + 2, PollStart(seen_id))

\* _cmessage_subscription_poll: WHERE pubevent_id > ?1 ... ORDER BY pubevent_id ASC
cmessage_subscription_poll(events, seen_id) ==
    PollFrom(events, seen_id + 1, PollStart(seen_id))

\* post.cmessage_belongs_to_cthread_id of the subscription
SubscribedThread == "t1"

UpdateEvent(rec, n) ==
    [sub_event |-> "cmessage_update", cmessage_rec |-> rec, write_n |-> n]

DbInit ==
    /\ DbIdle
    /\ RagIdle
    /\ ChatIdle
    /\ StreamIdle
    /\ ToolsIdle

\* handle_db_v1_cmessage_update up to the call of cmessage_set: cmessage_get,
\* which holds the mutex, then the merge on the request's own data
UpdateGetAndMerge ==
    /\ Len(requests) < MaxRequests
    /\ \E incoming_json \in IncomingJsons :
          requests' = Append(requests,
              [incoming_json |-> incoming_json,
               cmessage_rec  |-> MergedRecord(cmessages, incoming_json),
               pc |-> "merged", write_n |-> 0, pubevent_id |-> 0])
    /\ UNCHANGED <<cmessages, pubsub_events, write_log, sub_pc, pre_existing_cmessages,
                   last_event_id, cursor_at_sub, updated_cmessage_keys, delivered,
                   polled_ids>>
    /\ UNCHANGED <<ragVars, chatVars, streamVars, toolsVars>>

\* cmessage_set: INSERT OR REPLACE, then drop(conn)
CMessageSetInsert(r) ==
    /\ requests[r].pc = "merged"
    /\ cmessages' = [k \in DOMAIN cmessages \cup {KeyOf(requests[r].cmessage_rec)} |->
                        IF k = KeyOf(requests[r].cmessage_rec)
                        THEN requests[r].cmessage_rec ELSE cmessages[k]]
    /\ write_log' = Append(write_log, requests[r].cmessage_rec)
    /\ requests' = [requests EXCEPT ![r].pc = "inserted",
                                    ![r].write_n = Len(write_log) + 1]
    /\ UNCHANGED <<pubsub_events, sub_pc, pre_existing_cmessages, last_event_id,
                   cursor_at_sub, updated_cmessage_keys, delivered, polled_ids>>
    /\ UNCHANGED <<ragVars, chatVars, streamVars, toolsVars>>

\* cmessage_set: chore_pubub_push(&lite, "cmessage", "update", &j, ..)
CMessageSetPush(r) ==
    /\ requests[r].pc = "inserted"
    /\ pubsub_events' = Append(pubsub_events,
           PubEvent("cmessage", "update", KeyOf(requests[r].cmessage_rec)))
    /\ requests' = [requests EXCEPT ![r].pc = "done",
                                    ![r].pubevent_id = Len(pubsub_events) + 1]
    /\ UNCHANGED <<cmessages, write_log, sub_pc, pre_existing_cmessages, last_event_id,
                   cursor_at_sub, updated_cmessage_keys, delivered, polled_ids>>
    /\ UNCHANGED <<ragVars, chatVars, streamVars, toolsVars>>

\* handle_db_v1_cmessages_sub: the rows and the cursor, in one transaction
SubSnapshot ==
    /\ sub_pc = "idle"
    /\ pre_existing_cmessages' = SelectThread(cmessages, write_log, SubscribedThread)
    /\ last_event_id' = MaxEventId(pubsub_events)
    /\ cursor_at_sub' = MaxEventId(pubsub_events)
    /\ sub_pc' = "streaming"
    /\ UNCHANGED <<cmessages, pubsub_events, requests, write_log,
                   updated_cmessage_keys, delivered, polled_ids>>
    /\ UNCHANGED <<ragVars, chatVars, streamVars, toolsVars>>

\* the stream: for cmessage in pre_existing_cmessages { yield .. }
SubYieldPreExisting ==
    /\ sub_pc = "streaming"
    /\ delivered' = delivered \o
           [i \in 1..Len(pre_existing_cmessages) |->
               UpdateEvent(pre_existing_cmessages[i].cmessage_rec,
                           pre_existing_cmessages[i].write_n)]
    /\ sub_pc' = "sleeping"
    /\ UNCHANGED <<cmessages, pubsub_events, requests, write_log,
                   pre_existing_cmessages, last_event_id, cursor_at_sub,
                   updated_cmessage_keys, polled_ids>>
    /\ UNCHANGED <<ragVars, chatVars, streamVars, toolsVars>>

\* the stream: chore_pubsub_sleeping_procedure returned true, then
\* _cmessage_subscription_poll; no delete is ever pushed by this file
SubPoll ==
    /\ sub_pc = "sleeping"
    /\ \E polled \in {cmessage_subscription_poll(pubsub_events, last_event_id)} :
          /\ last_event_id' = polled.seen_id
          /\ polled_ids' = polled_ids \o polled.ids
          /\ updated_cmessage_keys' = polled.updated_cmessage_keys
          /\ sub_pc' = IF polled.updated_cmessage_keys = <<>> THEN "sleeping"
                       ELSE "fetching"
    /\ UNCHANGED <<cmessages, pubsub_events, requests, write_log,
                   pre_existing_cmessages, cursor_at_sub, delivered>>
    /\ UNCHANGED <<ragVars, chatVars, streamVars, toolsVars>>

\* the stream: for updated_key in updated_cmessage_keys { cmessage_get ..; yield }
SubFetch ==
    /\ sub_pc = "fetching"
    /\ \E updated_key \in {Head(updated_cmessage_keys)} :
       \E found \in {cmessage_get(cmessages, updated_key)} :
          delivered' =
              IF found # <<>>
                 /\ (SubscribedThread = ""
                     \/ SubscribedThread = updated_key.cmessage_belongs_to_cthread_id)
              THEN Append(delivered,
                       UpdateEvent(found[1], LastWrite(write_log, updated_key)))
              ELSE delivered
    /\ updated_cmessage_keys' = Tail(updated_cmessage_keys)
    /\ sub_pc' = IF Tail(updated_cmessage_keys) = <<>> THEN "sleeping" ELSE "fetching"
    /\ UNCHANGED <<cmessages, pubsub_events, requests, write_log,
                   pre_existing_cmessages, last_event_id, cursor_at_sub, polled_ids>>
    /\ UNCHANGED <<ragVars, chatVars, streamVars, toolsVars>>

\* the stream: chore_pubsub_sleeping_procedure returned false
SubShutdown ==
    /\ sub_pc = "sleeping"
    /\ sub_pc' = "closed"
    /\ UNCHANGED <<cmessages, pubsub_events, requests, write_log,
                   pre_existing_cmessages, last_event_id, cursor_at_sub,
                   updated_cmessage_keys, delivered, polled_ids>>
    /\ UNCHANGED <<ragVars, chatVars, streamVars, toolsVars>>

DbNext ==
    \/ UpdateGetAndMerge
    \/ \E r \in 1..Len(requests) : CMessageSetInsert(r)
    \/ \E r \in 1..Len(requests) : CMessageSetPush(r)
    \/ SubSnapshot
    \/ SubYieldPreExisting
    \/ SubPoll
    \/ SubFetch
    \/ SubShutdown

SpecDb == DbInit /\ [][DbNext]_vars

(***************************************************************************)
(* HasRagResults                                                           *)
(***************************************************************************)
MaxPushes == 3
MaxResponses == 3

\* the values given to push_in_json
JsonValues == {"v1", "v2"}

push_in_json(self, value) == [self EXCEPT !.in_json = Append(self.in_json, value)]

\* a faulty variant that does not remember that it has sent
response_streaming_again(self) ==
    IF self.was_sent = TRUE \/ self.in_json = <<>>
    THEN [self |-> self, result |-> <<>>]
    ELSE [self |-> self, result |-> self.in_json]

\* response_streaming: self afterwards, and the Vec inside the Ok
response_streaming(self) ==
    IF self.was_sent = TRUE \/ self.in_json = <<>>
    THEN [self |-> self, result |-> <<>>]
    ELSE [self |-> [self EXCEPT !.was_sent = TRUE], result |-> self.in_json]

StreamInit ==
    /\ StreamIdle
    /\ RagIdle
    /\ ChatIdle
    /\ DbIdle
    /\ ToolsIdle

PushInJson ==
    /\ Len(pushed) < MaxPushes
    /\ \E value \in JsonValues :
          /\ stream_back_to_user' = push_in_json(stream_back_to_user, value)
          /\ pushed' = Append(pushed, value)
    /\ UNCHANGED responses
    /\ UNCHANGED <<ragVars, chatVars, dbVars, toolsVars>>

ResponseStreaming ==
    /\ Len(responses) < MaxResponses
    /\ \E call \in {response_streaming(stream_back_to_user)} :
          /\ stream_back_to_user' = call.self
          /\ responses' = Append(responses,
                              [result |-> call.result, pushed_before |-> Len(pushed)])
    /\ UNCHANGED pushed
    /\ UNCHANGED <<ragVars, chatVars, dbVars, toolsVars>>

StreamNext ==
    \/ PushInJson
    \/ ResponseStreaming

SpecStream == StreamInit /\ [][StreamNext]_vars

(***************************************************************************)
(* run_tools                                                               *)
(***************************************************************************)
MaxToolCalls == 2

\* ChatMessage with its tool fields; tool_calls None is the empty Vec here,
\* run_tools treats the two alike
ToolChatMessage(role, content, tool_calls, tool_call_id) ==
    [role |-> role, content |-> content, tool_calls |-> tool_calls,
     tool_call_id |-> tool_call_id]

ToolCall(id, name, arguments) ==
    [id |-> id, function |-> [name |-> name, arguments |-> arguments]]

\* the keys of ccx.at_commands
AtCommands == {<<"@", "f", "i", "l", "e">>}

\* format!("@{}", t_call.function.name)
AtName(name) == <<"@">> \o name

FunctionNames == {<<"f", "i", "l", "e">>, <<"n", "o", "p", "e">>}

ArgumentTexts == {"{}", "{"}

\* serde_json::from_str::<HashMap<String, Value>> is Ok
ParsesAsMap(arguments) == arguments = "{}"

\* the tool calls of the assistant message: call k has id k
ToolCallLists ==
    UNION { {[k \in 1..n |-> ToolCall(k, names[k], args[k])] :
                names \in [1..n -> FunctionNames], args \in [1..n -> ArgumentTexts]} :
            n \in 0..MaxToolCalls }

ToolsMessageLists ==
    {<<>>, <<ToolChatMessage("user", "q", <<>>, 0)>>}
    \cup {<<ToolChatMessage("user", "q", <<>>, 0),
            ToolChatMessage("assistant", "", calls, 0)>> : calls \in ToolCallLists}

\* what execute_as_tool gives back: Err(e), or Ok with the tool's answer,
\* with the answer and a ContextFile, or with no answer to the call
ExecuteOutcomes(t_call) ==
    LET answer == [kind |-> "ChatMessage",
                   msg |-> ToolChatMessage("tool", "result", <<>>, t_call.id)]
        file   == [kind |-> "ContextFile", cf |-> Hint(PathB, 2, 2, Nil, 80000, 0, TRUE)]
    IN  { [ok |-> FALSE, error |-> "tool failed", msgs |-> <<>>],
          [ok |-> TRUE, error |-> "", msgs |-> <<answer>>],
          [ok |-> TRUE, error |-> "", msgs |-> <<answer, file>>],
          [ok |-> TRUE, error |-> "", msgs |-> <<file>>] }

ToolFailedMessage(t_call, e) == ToolChatMessage("tool", e, <<>>, t_call.id)

RECURSIVE ChatMessagesOf(_)
ChatMessagesOf(msgs) ==
    IF msgs = <<>> THEN <<>>
    ELSE (IF Head(msgs).kind = "ChatMessage" THEN <<Head(msgs).msg>> ELSE <<>>)
         \o ChatMessagesOf(Tail(msgs))

RECURSIVE ContextFilesOf(_)
ContextFilesOf(msgs) ==
    IF msgs = <<>> THEN <<>>
    ELSE (IF Head(msgs).kind = "ContextFile" THEN <<Head(msgs).cf>> ELSE <<>>)
         \o ContextFilesOf(Tail(msgs))

\* the body of  for t_call in ass_msg.tool_calls  with the outcome of
\* execute_as_tool, if it is called: the messages pushed, the files kept for
\* postprocessing, and whether  assert!(have_answer)  fails
ToolCallEffect(t_call, outcome) ==
    IF AtName(t_call.function.name) \notin AtCommands
    THEN [messages |-> <<>>, files |-> <<>>, panic |-> FALSE]
    ELSE IF ~ ParsesAsMap(t_call.function.arguments)
    THEN [messages |-> <<ToolFailedMessage(t_call, "bad arguments")>>, files |-> <<>>,
          panic |-> FALSE]
    ELSE IF ~ outcome.ok
    THEN [messages |-> <<ToolFailedMessage(t_call, outcome.error)>>, files |-> <<>>,
          panic |-> FALSE]
    ELSE [messages |-> ChatMessagesOf(outcome.msgs),
          files |-> ContextFilesOf(outcome.msgs),
          panic |-> ~ \E k \in 1..Len(outcome.msgs) :
                        /\ outcome.msgs[k].kind = "ChatMessage"
                        /\ outcome.msgs[k].msg.role = "tool"
                        /\ outcome.msgs[k].msg.tool_call_id = t_call.id]

RECURSIVE PushAllInJson(_, _)
PushAllInJson(self, values) ==
    IF values = <<>> THEN self
    ELSE PushAllInJson(push_in_json(self, Head(values)), Tail(values))

\* the tool calls of the last message
AssistantCalls(messages) == messages[Len(messages)].tool_calls

ToolsInit ==
    /\ tools_messages \in ToolsMessageLists
    /\ \E ctx \in {1024, 1038} : tools_context_limit = max_tokens_for_rag_chat(ctx, 0)
    /\ t_call_i = 0
    /\ context_messages = <<>>
    /\ for_postprocessing = <<>>
    /\ tools_result = FALSE
    /\ tools_pc = "entry"
    /\ StreamIdle
    /\ RagIdle
    /\ ChatIdle
    /\ DbIdle

\* the three early returns of run_tools, or the clone of the messages
RunToolsEntry ==
    /\ tools_pc = "entry"
    /\ context_messages' = tools_messages
    /\ tools_pc' = IF Len(tools_messages) = 0 THEN "returned"
                   ELSE IF tools_messages[Len(tools_messages)].role # "assistant"
                   THEN "returned"
                   ELSE IF Len(AssistantCalls(tools_messages)) = 0 THEN "returned"
                   ELSE "calls"
    /\ UNCHANGED <<toolsInputVars, t_call_i, for_postprocessing, tools_result>>
    /\ UNCHANGED <<ragVars, chatVars, dbVars, streamVars>>

\* one tool call of the loop
RunToolCall ==
    /\ tools_pc = "calls"
    /\ t_call_i < Len(AssistantCalls(tools_messages))
    /\ \E t_call \in {AssistantCalls(tools_messages)[t_call_i + 1]} :
       \E outcome \in ExecuteOutcomes(t_call) :
       \E effect \in {ToolCallEffect(t_call, outcome)} :
          /\ context_messages' = context_messages \o effect.messages
          /\ stream_back_to_user' = PushAllInJson(stream_back_to_user, effect.messages)
          /\ pushed' = pushed \o effect.messages
          /\ for_postprocessing' = for_postprocessing \o effect.files
          /\ tools_pc' = IF effect.panic THEN "panicked" ELSE "calls"
    /\ t_call_i' = t_call_i + 1
    /\ UNCHANGED <<toolsInputVars, tools_result, responses>>
    /\ UNCHANGED <<ragVars, chatVars, dbVars>>

\* postprocess_at_results2 on the files of the tools, the context_file
\* message, and the return of (context_messages, true)
RunToolsReturn ==
    /\ tools_pc = "calls"
    /\ t_call_i = Len(AssistantCalls(tools_messages))
    /\ \E order \in IterationOrders(DOMAIN postprocess_rag_load_ast_markup(for_postprocessing)) :
       \E context_file \in {Postprocess(for_postprocessing, order,
                                        tools_context_limit, FALSE).merged} :
       \E message \in {ToolChatMessage("context_file", context_file, <<>>, 0)} :
          IF Len(context_file) > 0
          THEN /\ context_messages' = Append(context_messages, message)
               /\ stream_back_to_user' = push_in_json(stream_back_to_user, message)
               /\ pushed' = Append(pushed, message)
          ELSE UNCHANGED <<context_messages, stream_back_to_user, pushed>>
    /\ tools_result' = TRUE
    /\ tools_pc' = "returned"
    /\ UNCHANGED <<toolsInputVars, t_call_i, for_postprocessing, responses>>
    /\ UNCHANGED <<ragVars, chatVars, dbVars>>

ToolsNext ==
    \/ RunToolsEntry
    \/ RunToolCall
    \/ RunToolsReturn

SpecTools == ToolsInit /\ [][ToolsNext]_vars


(***************************************************************************)
(* Properties                                                              *)
(***************************************************************************)
RECURSIVE SumOver(_, _)
SumOver(S, f) ==
    IF S = {} THEN 0
    ELSE LET x == CHOOSE y \in S : TRUE IN f[x] + SumOver(S \ {x}, f)

CpathOf(id) == files_markup[lines[id].fref].cpath

TakenIds == {id \in DOMAIN lines : lines[id].take}

TakenCpaths == {CpathOf(id) : id \in TakenIds}

AboveFloorIds == {id \in DOMAIN lines : lines[id].useful > take_floor}

\* the tokens of the taken lines, plus the overhead of each file that has one
TakenCost ==
    SumOver(TakenIds, [id \in TakenIds |-> count_tokens(lines[id].line_content)])
    + (IF single_file_mode THEN 0
       ELSE SumOver(TakenCpaths, [c \in TakenCpaths |-> count_tokens(c) + FileOverhead]))

Selecting == pc \in {"stage8", "stage9", "done"}

\* C1. Budget respect: before and after the selection loop, the tokens of
\* the lines marked take, plus tokens(file_name) + 5 for each file with a
\* taken line in multi-file mode, are at most tokens_limit.
BudgetRespect == Selecting => TakenCost <= tokens_limit

\* C1 witness: a finished multi-file selection over two files that took
\* lines of both and was cut short by the budget.
BudgetRespectWitness ==
    /\ pc = "done"
    /\ ~ single_file_mode
    /\ Cardinality(TakenCpaths) = 2
    /\ AboveFloorIds \ TakenIds # {}
    /\ TakenCost = tokens_limit

\* the lines a disabling message names: indices [line1 - 1, line2) of its file
DisabledIds ==
    {id \in DOMAIN lines :
        \E k \in 1..Len(origmsgs) :
            /\ origmsgs[k].usefulness < 0
            /\ canonical_path(origmsgs[k].file_name) = CpathOf(id)
            /\ IndexIn(lines_in_files[CpathOf(id)], id) >= origmsgs[k].line1 - 1
            /\ IndexIn(lines_in_files[CpathOf(id)], id) < origmsgs[k].line2}

\* C2. Disable dominates: when postprocess returns, no line in the range
\* [line1 - 1, line2) of a message with usefulness < 0 is taken.
DisableDominates == pc = "done" => \A id \in DisabledIds : ~ lines[id].take

\* C3. Determinism: the excerpts returned do not depend on the order in
\* which the HashMap of files iterates: every order gives the same result.
Determinism ==
    pc = "done" =>
        \A order \in IterationOrders(DOMAIN files_markup) :
            Postprocess(origmsgs, order, tokens_limit, single_file_mode).merged
                = merged

\* C4. postprocess never aborts: no list of messages makes it panic.
NeverAborts == pc # "panicked"

Malformed(omsg) == omsg.line1 > omsg.line2 /\ omsg.usefulness >= 0

AllMalformed == origmsgs # <<>> /\ \A k \in 1..Len(origmsgs) : Malformed(origmsgs[k])

Untouched(line) == line.useful = 0 /\ line.color = <<>> /\ ~ line.take

\* C5, as claimed. A message with line1 > line2 and usefulness >= 0 is
\* rejected before any work: no line of any file is scored, coloured or taken.
InvalidInputRejected ==
    (\E k \in 1..Len(origmsgs) : Malformed(origmsgs[k]))
        => \A id \in DOMAIN lines : Untouched(lines[id])

\* C5, amended. Messages with line1 > line2 and usefulness >= 0 are not
\* rejected: the run does not abort, every line of their files is scored and
\* coloured as usual, and only the colouring by line range, whose range
\* [max(1, line1) - 1, line2) is then empty, marks no line "nosymb".
MalformedHintTolerated ==
    AllMalformed =>
        /\ pc # "panicked"
        /\ pc \notin {"load", "stage3"} =>
              \A id \in DOMAIN lines :
                  /\ lines[id].color \notin {<<>>, ColorNosymb}
                  /\ lines[id].useful # 0

\* C5 witness: a run on malformed messages only that returned an excerpt.
MalformedHintWitness ==
    /\ AllMalformed
    /\ pc = "done"
    /\ merged # <<>>
    /\ \E id \in DOMAIN lines : lines[id].color = GradientColor(0) /\ lines[id].take

MergedNames == {merged[k].file_name : k \in 1..Len(merged)}

\* C6. The excerpts returned are exactly one per file with a taken line.
ExcerptPerTakenFile ==
    pc = "done" =>
        /\ MergedNames = TakenCpaths
        /\ Len(merged) = Cardinality(MergedNames)

\* C6 witness: a file was recorded as mentioned, none of its lines was
\* taken, and the result has an excerpt of another file only.
ExcerptPerTakenFileWitness ==
    /\ pc = "done"
    /\ merged # <<>>
    /\ \E k \in 1..Len(files_mentioned_sequence) :
          files_mentioned_sequence[k] \notin TakenCpaths

FirstTakenIndex(cpath) ==
    LET vec == lines_in_files[cpath]
    IN  (CHOOSE k \in 1..Len(vec) :
            /\ lines[vec[k]].take
            /\ \A j \in 1..(k - 1) : ~ lines[vec[j]].take) - 1

\* C7. Every excerpt starts with the content of the first taken line of its
\* file, never with an elision line.
NoLeadingElision ==
    pc = "done" =>
        \A k \in 1..Len(merged) :
            LET vec == lines_in_files[merged[k].file_name]
                first == lines[vec[FirstTakenIndex(merged[k].file_name) + 1]]
            IN  StartsWith(merged[k].file_content, first.line_content \o <<"\n">>)

\* C8. Every excerpt has line1 = the index of the first taken line of its
\* file and line2 = the index of the last line of the file.
ExcerptLineNumbers ==
    pc = "done" =>
        \A k \in 1..Len(merged) :
            /\ merged[k].line1 = FirstTakenIndex(merged[k].file_name)
            /\ merged[k].line2 = Len(lines_in_files[merged[k].file_name]) - 1

FirstTakenPos(cpath) ==
    CHOOSE k \in 1..Len(lines_by_useful) :
        /\ lines[lines_by_useful[k]].take
        /\ CpathOf(lines_by_useful[k]) = cpath
        /\ \A j \in 1..(k - 1) :
              ~ (lines[lines_by_useful[j]].take /\ CpathOf(lines_by_useful[j]) = cpath)

\* C9. Excerpts come in the order in which their files first had a line
\* taken in the sorted sequence.
EmissionOrder ==
    pc = "done" =>
        \A p, q \in 1..Len(merged) :
            p < q => FirstTakenPos(merged[p].file_name) < FirstTakenPos(merged[q].file_name)

\* C9 witness: a result with excerpts of two files, the one emitted first
\* being the one the HashMap iterates last.
EmissionOrderWitness ==
    /\ pc = "done"
    /\ Len(merged) = 2
    /\ Len(files_order) = 2
    /\ merged[1].file_name = files_markup[files_order[2]].cpath

RaisedUsefulness == {100000}

Raised(msgs, k, u) == [msgs EXCEPT ![k].usefulness = u]

RaisedRun(k, u) ==
    Postprocess(Raised(origmsgs, k, u), files_order, tokens_limit, single_file_mode)

Raisable(k, u) == origmsgs[k].usefulness >= 0 /\ u > origmsgs[k].usefulness

AboveFloorOf(L) == {id \in DOMAIN L : L[id].useful > take_floor}

NextIds(id) ==
    LET vec == lines_in_files[CpathOf(id)]
    IN  {vec[k + 1] : k \in {j \in 1..(Len(vec) - 1) : vec[j] = id}}

\* a line whose colour is the path of a symbol of its file, or extends it
IsSymbolLine(id) ==
    LET symbols == files_markup[lines[id].fref].markup.symbols_sorted_by_path_len
    IN  \E k \in 1..Len(symbols) :
            /\ symbols[k].symbol_type # "CommentDefinition"
            /\ StartsWith(lines[id].color, symbols[k].symbol_path)

\* comment lines above the floor whose next line is a taken symbol line
GluedCommentIds ==
    {id \in AboveFloorIds :
        /\ lines[id].color = ColorComment
        /\ \E next \in NextIds(id) : IsSymbolLine(next) /\ lines[next].take}

\* C11, as claimed. Comment glue: for every budget, a line coloured
\* "comment" whose useful exceeds take_floor and whose next line is a taken
\* symbol line is taken too.
CommentGlue == pc = "done" => \A id \in GluedCommentIds : lines[id].take

\* C11, amended. Comment glue holds when the selection loop reaches the end
\* of the sorted lines without the budget stopping it: then a comment line
\* above take_floor that precedes a taken symbol line is taken too.
CommentGlueUnderBudget ==
    pc = "done" /\ line_i > Len(lines_by_useful) =>
        \A id \in GluedCommentIds : lines[id].take

\* C11 witness: a finished selection that reached the end of the sorted
\* lines and took a comment line whose useful was raised by propagation
\* from the taken symbol line after it.
CommentGlueWitness ==
    /\ pc = "done"
    /\ line_i > Len(lines_by_useful)
    /\ \E id \in GluedCommentIds :
          /\ lines[id].take
          /\ lines[id].useful > useful_symbol_default

(***************************************************************************)
(* The scores stage 4 leaves on the lines                                  *)
(***************************************************************************)
Colored == pc \in {"stage7", "stage8", "stage9", "done"}

\* the symbol a message names, as a set: empty when it resolves to none
SymbolOf(omsg) ==
    LET cpath == canonical_path(omsg.file_name)
    IN  IF cpath \notin DOMAIN lines_in_files THEN {}
        ELSE LET found == FindSymbol(
                     files_markup[lines[lines_in_files[cpath][1]].fref].markup.symbols_sorted_by_path_len,
                     omsg.symbol)
             IN  {found[k] : k \in 1..Len(found)}

\* background + (u - background) * len(P) / len(P::c)
ParentLiftBound(u, parent_path, child_path) ==
    useful_background + Quot((u - useful_background) * Len(parent_path), Len(child_path))

\* C12. Parent weaker than child: after the only hint, of usefulness u on a
\* symbol with path P::c and is_body_important false, every line still
\* coloured P has useful <= background + (u - background) * len(P)/len(P::c).
ParentWeakerThanChild ==
    Colored /\ Len(origmsgs) = 1 =>
        \A omsg \in {origmsgs[1]} :
            omsg.usefulness >= 0 /\ ~ omsg.is_body_important =>
                \A sym \in SymbolOf(omsg) :
                    HasParent(sym.symbol_path) =>
                        \A id \in DOMAIN lines :
                            /\ CpathOf(id) = canonical_path(omsg.file_name)
                            /\ lines[id].color = ParentPath(sym.symbol_path)
                            => lines[id].useful <=
                                   ParentLiftBound(omsg.usefulness,
                                       ParentPath(sym.symbol_path), sym.symbol_path)

\* the hints the score rules are stated for: usefulness in [-1, 100] and a
\* gradient_type in 0..4
GradientHints ==
    \A k \in 1..Len(origmsgs) :
        /\ origmsgs[k].gradient_type \in 0..4
        /\ origmsgs[k].usefulness >= -1000
        /\ origmsgs[k].usefulness <= 100000

\* C13. After stages 3-6 over hints with usefulness in [-1, 100] and
\* gradient_type in 0..4, every line's useful is exactly -1.0 or >= 0.0.
UsefulDisabledOrNonNegative ==
    Colored /\ GradientHints =>
        \A id \in DOMAIN lines : lines[id].useful = -1000 \/ lines[id].useful >= 0

(***************************************************************************)
(* The writes of the colorizer, one by one                                 *)
(***************************************************************************)
\* every line that after differs from before in useful or colour got a
\* greater useful, or the disabling value -1
MaxOnly(before, after) ==
    \A id \in DOMAIN before :
        after[id].useful # before[id].useful \/ after[id].color # before[id].color =>
            after[id].useful > before[id].useful \/ after[id].useful = -1000

\* 3. the fills of one file: each symbol in turn, then the background
FillsAreMaxOnly(L, vec, symbols) ==
    /\ \A n \in 1..Len(symbols) :
          MaxOnly(SymbolFill(L, vec, SubSeq(symbols, 1, n - 1)),
                  SymbolFill(L, vec, SubSeq(symbols, 1, n)))
    /\ \A filled \in {SymbolFill(L, vec, symbols)} :
          MaxOnly(filled, colorize_if_more_useful(filled, vec, 0, Len(vec),
                                                  ColorEmpty, useful_background))

\* 4. the colorize_if_more_useful call of a message with usefulness >= 0,
\* over the range of its symbol or over its line range
HintedRange(L, vec, files, omsg) ==
    LET maybe_symbol ==
            FindSymbol(files[L[vec[1]].fref].markup.symbols_sorted_by_path_len, omsg.symbol)
    IN  IF ~ omsg.is_body_important /\ maybe_symbol # <<>>
        THEN colorize_if_more_useful(L, vec, maybe_symbol[1].full_range.start_row,
                 maybe_symbol[1].full_range.end_row + 1, maybe_symbol[1].symbol_path,
                 omsg.usefulness)
        ELSE colorize_if_more_useful(L, vec, Max(omsg.line1, 1) - 1, omsg.line2,
                 ColorNosymb, omsg.usefulness)

\* 4. the gradient write of a message, then its range write
HintWritesAreMaxOnly(L, vec, files, omsg) ==
    \A shaped \in {color_with_gradient_type(L, vec, omsg)} :
        /\ MaxOnly(L, shaped)
        /\ omsg.usefulness >= 0 => MaxOnly(shaped, HintedRange(shaped, vec, files, omsg))

\* C18. Max-only write rule: every scoring write of the colorizer (symbol
\* fill, background fill, gradient shape, hinted symbol range, hinted line
\* range) changes a line's useful and colour only if the new value exceeds
\* the line's current useful or is the disabling value -1.
MaxOnlyWriteRule ==
    /\ pc = "stage3" =>
          \A vec \in {NewLinesInFiles(files_markup, files_order)[c] :
                          c \in DOMAIN NewLinesInFiles(files_markup, files_order)} :
              FillsAreMaxOnly(NewLines(files_markup), vec,
                  files_markup[vec[1][1]].markup.symbols_sorted_by_path_len)
    /\ pc = "stage4" /\ hint_i <= Len(origmsgs) =>
          \A c \in {canonical_path(origmsgs[hint_i].file_name)} \cap DOMAIN lines_in_files :
              HintWritesAreMaxOnly(lines, lines_in_files[c], files_markup, origmsgs[hint_i])

\* the symbols of the file of line id, comments aside, whose full range
\* covers the line
CoveringSymbols(id) ==
    LET symbols == files_markup[lines[id].fref].markup.symbols_sorted_by_path_len
    IN  {symbols[k] : k \in {j \in 1..Len(symbols) :
                                /\ symbols[j].symbol_type # "CommentDefinition"
                                /\ symbols[j].full_range.start_row <= lines[id].line_n
                                /\ lines[id].line_n <= symbols[j].full_range.end_row}}

CoveredByComment(id) ==
    LET symbols == files_markup[lines[id].fref].markup.symbols_sorted_by_path_len
    IN  \E j \in 1..Len(symbols) :
            /\ symbols[j].symbol_type = "CommentDefinition"
            /\ symbols[j].full_range.start_row <= lines[id].line_n
            /\ lines[id].line_n <= symbols[j].full_range.end_row

\* C19. Descendants overwrite ancestors in symbol fill: after the fills of
\* stage 3, a line covered by a symbol and by a nested symbol with a longer
\* path is coloured with the longest path that covers it, and a line covered
\* by no symbol is coloured "empty".
DescendantsOverwriteAncestors ==
    pc = "stage4" /\ hint_i = 1 =>
        \A id \in DOMAIN lines :
            /\ CoveringSymbols(id) # {} /\ ~ CoveredByComment(id) =>
                  /\ lines[id].color \in {sym.symbol_path : sym \in CoveringSymbols(id)}
                  /\ \A sym \in CoveringSymbols(id) :
                        Len(sym.symbol_path) <= Len(lines[id].color)
            /\ CoveringSymbols(id) = {} /\ ~ CoveredByComment(id) =>
                  lines[id].color = ColorEmpty

\* the lines of vec at the indices [line1 - 1, line2) of a message
DisabledRange(vec, omsg) ==
    {vec[k] : k \in {j \in 1..Len(vec) : j >= omsg.line1 /\ j <= omsg.line2}}

\* what a message with usefulness < 0 does to the lines L of its file: the
\* lines of its range become disabled, every other line is as before
OnlyDisablesItsRange(L, vec, after, omsg) ==
    \A id \in DOMAIN L :
        IF id \in DisabledRange(vec, omsg)
        THEN after[id].useful = -1000 /\ after[id].color = ColorDisabled
        ELSE after[id] = L[id]

\* C20. A hint with usefulness < 0 changes only the lines in
\* [line1 - 1, line2) of its file, setting them to useful -1 and colour
\* "disabled"; every other line keeps its useful and colour, for every
\* gradient_type, and no gradient, symbol, parent-lift or comment pass is
\* applied for it.
NegativeHintFrame ==
    pc = "stage4" /\ hint_i <= Len(origmsgs) =>
        \A omsg \in {origmsgs[hint_i]} :
            omsg.usefulness < 0 /\ canonical_path(omsg.file_name) \in DOMAIN lines_in_files =>
                OnlyDisablesItsRange(lines, lines_in_files[canonical_path(omsg.file_name)],
                    ColorizeMessage(lines, lines_in_files, files_markup, omsg), omsg)

(***************************************************************************)
(* Declaration and body of a hinted symbol                                 *)
(***************************************************************************)
IdsInRows(cpath, row1, row2) ==
    {lines_in_files[cpath][k + 1] :
        k \in {r \in row1..row2 : r < Len(lines_in_files[cpath])}}

\* the lines of the declaration of sym
DeclarationIds(cpath, sym) ==
    IdsInRows(cpath, sym.full_range.start_row, sym.declaration_range.end_row)

\* the lines stage 5 downgraded as the body of sym
DowngradedBodyIds(cpath, sym) ==
    {id \in IdsInRows(cpath,
                Max(sym.definition_range.start_row, sym.declaration_range.end_row + 1),
                sym.definition_range.end_row) :
        lines[id].color = sym.symbol_path \o BodySuffix}

\* the declaration of the symbol message k names scores above its downgraded
\* body, and in single-file mode no body line is taken without it
DeclarationAboveBody(k) ==
    \A omsg \in {origmsgs[k]} :
        omsg.usefulness >= 0 /\ ~ omsg.is_body_important =>
            \A sym \in SymbolOf(omsg) :
                \A cpath \in {canonical_path(omsg.file_name)} :
                \A d \in DeclarationIds(cpath, sym) :
                    /\ \A b \in DowngradedBodyIds(cpath, sym) :
                          lines[d].useful > lines[b].useful
                    /\ pc = "done" /\ single_file_mode
                       /\ (\E b \in DowngradedBodyIds(cpath, sym) : lines[b].take)
                       => lines[d].take

SameFileHints(k) ==
    {j \in 1..Len(origmsgs) :
        /\ j # k
        /\ canonical_path(origmsgs[j].file_name) = canonical_path(origmsgs[k].file_name)}

AboveFloorCpaths == {CpathOf(id) : id \in AboveFloorIds}

\* the cost of every line above take_floor, plus the overhead of each file
\* that has one
AboveFloorCost ==
    SumOver(AboveFloorIds, [id \in AboveFloorIds |-> count_tokens(lines[id].line_content)])
    + (IF single_file_mode THEN 0
       ELSE SumOver(AboveFloorCpaths,
                    [c \in AboveFloorCpaths |-> count_tokens(c) + FileOverhead]))

RECURSIVE WholeText(_, _)
\* every line of vec followed by a newline
WholeText(L, vec) ==
    IF vec = <<>> THEN <<>>
    ELSE L[Head(vec)].line_content \o <<"\n">> \o WholeText(L, Tail(vec))

\* the files whose every line is above take_floor
WholeFiles ==
    {c \in DOMAIN lines_in_files :
        \A k \in 1..Len(lines_in_files[c]) : lines_in_files[c][k] \in AboveFloorIds}

\* C16. Ample budget keeps everything above the floor: when tokens_limit is
\* at least the cost of all lines with useful > take_floor plus the per-file
\* overheads, every such line is taken, and the excerpt of a file whose lines
\* are all above the floor is all its lines, each followed by a newline, with
\* no elision.
AmpleBudgetKeepsAll ==
    pc = "done" /\ tokens_limit >= AboveFloorCost =>
        /\ AboveFloorIds \subseteq TakenIds
        /\ \A c \in WholeFiles :
              \E k \in 1..Len(merged) :
                  /\ merged[k].file_name = c
                  /\ merged[k].file_content = WholeText(lines, lines_in_files[c])

\* C16 witness: in multi-file mode a budget of exactly the cost of the lines
\* above the floor, after a gradient hint with is_body_important lifted every
\* line of a file without AST, and the excerpt is the whole file.
AmpleBudgetWitness ==
    /\ pc = "done"
    /\ ~ single_file_mode
    /\ tokens_limit = AboveFloorCost
    /\ \E k \in 1..Len(origmsgs) :
          /\ origmsgs[k].gradient_type = 0
          /\ origmsgs[k].is_body_important
          /\ origmsgs[k].usefulness > useful_symbol_default
    /\ \E c \in WholeFiles :
          /\ ~ file_markup_ok(c)
          /\ \E k \in 1..Len(merged) :
                /\ merged[k].file_name = c
                /\ merged[k].file_content = WholeText(lines, lines_in_files[c])

(***************************************************************************)
(* Properties of run_at_commands                                           *)
(***************************************************************************)
ReserveComputed == chat_pc \in {"scan", "annotate", "returned"}

\* max(0, n_ctx - maxgen - 1024) on the integers
BudgetForContext(n, m) ==
    IF n <= m \/ n - m <= RESERVE_FOR_QUESTION_AND_FOLLOWUP THEN 0
    ELSE (n - m) - RESERVE_FOR_QUESTION_AND_FOLLOWUP

\* C14. max_tokens_for_rag_chat(n_ctx, maxgen) equals
\* max(0, n_ctx - maxgen - 1024) for all non-negative n_ctx and maxgen: it
\* never wraps around, never aborts and is never larger than n_ctx.
MaxTokensIsClampedDifference ==
    /\ chat_pc # "panicked"
    /\ ReserveComputed =>
          /\ reserve_for_context = BudgetForContext(n_ctx, maxgen)
          /\ reserve_for_context <= n_ctx

\* the trailing messages with role "user", by index from 1
TrailingUsers ==
    {k \in 1..Len(original_messages) :
        \A j \in k..Len(original_messages) : original_messages[j].role = "user"}

TrailingWithAt == {k \in TrailingUsers : ContainsAt(original_messages[k].content)}

\* reserve_for_context / N, N the trailing user messages with "@", or 1
ShareOfReserve == reserve_for_context \div Max(Cardinality(TrailingWithAt), 1)

\* C15. Budget division without redistribution: each trailing user message
\* is postprocessed once, with the limit reserve_for_context / N less its own
\* tokens, floored at 0, whatever the contexts of the other messages used.
BudgetDivision ==
    /\ \A e \in 1..Len(context_limits) :
          \A k \in {context_limits[e].msg_idx + 1} :
              /\ k \in TrailingUsers
              /\ context_limits[e].context_limit =
                     Max(ShareOfReserve - count_tokens(original_messages[k].content), 0)
    /\ chat_pc = "returned" =>
          /\ Len(context_limits) = Cardinality(TrailingUsers)
          /\ \A e1, e2 \in 1..Len(context_limits) :
                context_limits[e1].msg_idx = context_limits[e2].msg_idx => e1 = e2

\* C15 witness: two trailing user messages with "@" were annotated, the
\* context of the first used nothing of its positive limit, and the second
\* still got its own share only.
BudgetDivisionWitness ==
    /\ chat_pc = "returned"
    /\ Cardinality(TrailingWithAt) = 2
    /\ Len(context_limits) = 2
    /\ context_limits[1].context_limit > 0
    /\ context_limits[1].post_processed = 0
    /\ context_limits[2].context_limit > 0
    /\ context_limits[2].context_limit < reserve_for_context \div 2

(***************************************************************************)
(* The selection as a prefix of the sorted lines                           *)
(***************************************************************************)
\* the selection loop is over, the excerpts are not written yet
Selected == pc = "stage9"

\* the positions in lines_by_useful of the lines above take_floor
AboveFloorPositions ==
    {k \in 1..Len(lines_by_useful) : lines_by_useful[k] \in AboveFloorIds}

\* the positions of the lines above take_floor that were not taken
LeftPositions == {k \in AboveFloorPositions : ~ lines[lines_by_useful[k]].take}

\* what the line at position k costs after the lines taken: its tokens,
\* plus the file overhead when no line of its file is taken and
\* single_file_mode is off
CostAfterTaken(k) ==
    count_tokens(lines[lines_by_useful[k]].line_content)
    + (IF CpathOf(lines_by_useful[k]) \notin TakenCpaths /\ ~ single_file_mode
       THEN count_tokens(CpathOf(lines_by_useful[k])) + FileOverhead ELSE 0)

\* C21. First fit by sort order: the lines are visited in descending order
\* of useful + symmetry_breaker, a taken line has useful > take_floor, the
\* loop stops at the first line above the floor whose cost does not fit, and
\* the taken lines are a prefix of the sorted lines above the floor: no line
\* after the first that does not fit is taken.
FirstFitBySortOrder ==
    Selected =>
        /\ \A i \in 1..(Len(lines_by_useful) - 1) :
              SortKey(lines, files_markup, lines_by_useful[i])
                  >= SortKey(lines, files_markup, lines_by_useful[i + 1])
        /\ \A k \in 1..Len(lines_by_useful) :
              lines[lines_by_useful[k]].take =>
                  lines[lines_by_useful[k]].useful > take_floor
        /\ (\E k \in 1..Len(lines_by_useful) :
               /\ lines[lines_by_useful[k]].useful > take_floor
               /\ ~ lines[lines_by_useful[k]].take)
           => /\ line_i \in LeftPositions
              /\ \A k \in 1..Len(lines_by_useful) :
                    lines[lines_by_useful[k]].useful > take_floor =>
                        (lines[lines_by_useful[k]].take <=> k < line_i)
              /\ tokens_count + CostAfterTaken(line_i) > tokens_limit

\* C21 witness: the loop stopped at a line that does not fit, and a later
\* line above the floor that would have fitted the rest of the budget was
\* left untaken.
FirstFitWitness ==
    /\ Selected
    /\ TakenIds # {}
    /\ \E k \in LeftPositions :
          /\ k > line_i
          /\ tokens_count + CostAfterTaken(k) <= tokens_limit

(***************************************************************************)
(* The elisions of an excerpt                                              *)
(***************************************************************************)
ElisionLine == <<".", ".", ".">>

\* the rows of file cpath that are taken
TakenRows(cpath) ==
    {i \in 0..(Len(lines_in_files[cpath]) - 1) : lines[lines_in_files[cpath][i + 1]].take}

\* two rows of ts with no row of ts between them
ConsecutiveTaken(ts, p, i) ==
    /\ p \in ts
    /\ i \in ts
    /\ p < i
    /\ \A t \in ts : ~ (p < t /\ t < i)

\* the positions in the lines of an excerpt that are not an elision
ContentPositions(out) == {q \in 1..Len(out) : out[q] # ElisionLine}

\* the r-th number of a set of numbers, in ascending order
PositionOf(cs, r) ==
    CHOOSE q \in cs : Cardinality({q2 \in cs : q2 <= q}) = r

\* the position in the excerpt of the taken row i, for the taken rows ts and
\* the content positions cs of the excerpt
PositionOfRow(ts, cs, i) ==
    PositionOf(cs, Cardinality({t \in ts : t <= i}))

\* the lines of the excerpt between those of rows p and i
WrittenBetween(ts, cs, p, i) ==
    PositionOfRow(ts, cs, i) - PositionOfRow(ts, cs, p) - 1

\* the excerpt holds the taken rows, in order, and between two consecutive
\* taken rows one elision if they are at least gap rows apart, else nothing
InteriorElisions(gap) ==
    \A k \in 1..Len(merged) :
        \A cpath \in {merged[k].file_name} :
        \A out \in {StrLines(merged[k].file_content)} :
        \A ts \in {TakenRows(cpath)} :
        \A cs \in {ContentPositions(out)} :
            /\ Cardinality(cs) = Cardinality(ts)
            /\ \A i \in ts :
                  out[PositionOfRow(ts, cs, i)]
                      = lines[lines_in_files[cpath][i + 1]].line_content
            /\ \A p, i \in ts :
                  ConsecutiveTaken(ts, p, i) =>
                      WrittenBetween(ts, cs, p, i) = (IF i - p - 1 >= gap THEN 1 ELSE 0)
            /\ \A q \in 1..(Len(out) - 1) :
                  ~ (out[q] = ElisionLine /\ out[q + 1] = ElisionLine)

\* C22, as claimed. Interior elision: between two consecutive taken lines
\* the emitter writes exactly one "..." line when they are separated by 2 or
\* more untaken lines and nothing when they are adjacent or separated by
\* exactly one untaken line; two "..." lines never follow each other.
InteriorElisionFromTwo == pc = "done" => InteriorElisions(2)

\* C22, amended. Between two consecutive taken lines the emitter writes
\* exactly one "..." line when they are separated by 1 or more untaken lines
\* and nothing when they are adjacent; two "..." lines never follow each
\* other.
InteriorElisionFromOne == pc = "done" => InteriorElisions(1)

\* C22 witness: an excerpt with two consecutive taken lines separated by
\* exactly one untaken line, and one "..." line between them.
InteriorElisionWitness ==
    /\ pc = "done"
    /\ \E k \in 1..Len(merged) :
       \E ts \in {TakenRows(merged[k].file_name)} :
       \E cs \in {ContentPositions(StrLines(merged[k].file_content))} :
       \E p, i \in ts :
          /\ ConsecutiveTaken(ts, p, i)
          /\ i = p + 2
          /\ WrittenBetween(ts, cs, p, i) = 1

\* the last taken row of file cpath is followed by an untaken row
UntakenAfterLast(cpath) ==
    \E i \in TakenRows(cpath) :
        /\ \A t \in TakenRows(cpath) : t <= i
        /\ i < Len(lines_in_files[cpath]) - 1

\* C23. Trailing elision: the excerpt of a file ends with exactly one
\* trailing "..." line if and only if the last taken line is followed by at
\* least one untaken line, one untaken line included.
TrailingElision ==
    pc = "done" =>
        \A k \in 1..Len(merged) :
            \A out \in {StrLines(merged[k].file_content)} :
                /\ out[Len(out)] = ElisionLine <=> UntakenAfterLast(merged[k].file_name)
                /\ Len(out) >= 2 => ~ (out[Len(out)] = ElisionLine
                                        /\ out[Len(out) - 1] = ElisionLine)

(***************************************************************************)
(* Stage 6 on the scores stage 5 leaves                                    *)
(***************************************************************************)
\* the lines of index 1 .. len - 2 of their file
InteriorIds ==
    {id \in DOMAIN lines :
        /\ IndexIn(lines_in_files[CpathOf(id)], id) >= 1
        /\ IndexIn(lines_in_files[CpathOf(id)], id) < Len(lines_in_files[CpathOf(id)]) - 1}

\* max(own, min(prev, next)) of the scores before the pass
Bridged(id) ==
    LET vec == lines_in_files[CpathOf(id)]
        i   == IndexIn(vec, id)
    IN  Max(lines[id].useful, Min(lines[vec[i]].useful, lines[vec[i + 2]].useful))

\* C24. Gap closing: with close_small_gaps on, after stage 6 each interior
\* line's useful is max(own, min(prev, next)) of the values the three lines
\* had before the pass, the first and last line of each file are unchanged
\* and no useful is lowered; with the setting off every useful is unchanged.
GapClosing ==
    pc = "stage6" =>
        /\ \A after \in {CloseSmallGapsIf(TRUE, lines, lines_in_files)} :
              /\ \A id \in InteriorIds : after[id].useful = Bridged(id)
              /\ \A id \in DOMAIN lines \ InteriorIds : after[id] = lines[id]
              /\ \A id \in DOMAIN lines :
                    /\ after[id].useful >= lines[id].useful
                    /\ after[id] = [lines[id] EXCEPT !.useful = after[id].useful]
              /\ close_small_gaps => after = CloseSmallGaps(lines, lines_in_files)
        /\ CloseSmallGapsIf(FALSE, lines, lines_in_files) = lines

\* C24 witness: before stage 6 a line scores below both its neighbours, a
\* one-line hole, and the pass lifts it to the lesser of the two.
GapClosingWitness ==
    /\ pc = "stage6"
    /\ \E id \in InteriorIds :
          /\ Bridged(id) > lines[id].useful
          /\ CloseSmallGaps(lines, lines_in_files)[id].useful = Bridged(id)
          /\ \E other \in InteriorIds :
                /\ CpathOf(other) = CpathOf(id)
                /\ Bridged(other) = lines[other].useful

(***************************************************************************)
(* Stage 5 on the scores stage 4 leaves                                    *)
(***************************************************************************)
\* the body lines of sym that still carry the colour sym.symbol_path
OwnPathBodyIds(cpath, sym) ==
    {id \in IdsInRows(cpath,
                Max(sym.definition_range.start_row, sym.declaration_range.end_row + 1),
                sym.definition_range.end_row) :
        lines[id].color = sym.symbol_path}

\* the symbols that are search results: named by a message that colours
\* them with their own path
SearchResultSymbols ==
    UNION {{<<canonical_path(origmsgs[k].file_name), sym>> : sym \in SymbolOf(origmsgs[k])} :
              k \in {j \in 1..Len(origmsgs) :
                        origmsgs[j].usefulness >= 0 /\ ~ origmsgs[j].is_body_important}}

\* C25. Body downgrade spares a search result: body lines that a hint
\* coloured with the symbol's own path keep their useful and colour through
\* stage 5, and every other body line is multiplied by degrade_body_coef at
\* most once.
BodyOfSearchResultKept ==
    pc = "stage4" /\ hint_i > Len(origmsgs) =>
        \A after \in {DowngradeAll(lines, lines_in_files, files_markup)} :
            /\ \A r \in SearchResultSymbols :
                  \A id \in OwnPathBodyIds(r[1], r[2]) : after[id] = lines[id]
            /\ \A id \in DOMAIN lines :
                  after[id].useful \in {lines[id].useful,
                                        Coef(lines[id].useful, degrade_body_coef)}

(***************************************************************************)
(* The line matrix of stage 3                                              *)
(***************************************************************************)
MatrixBuilt == pc \notin {"load", "stage3"}

\* the vector of one file holds one Line per line of the content, and the
\* Line at index i has line_n = i
OneLinePerContentLine(vec) ==
    /\ Len(vec) = Len(FileLinesOf(files_markup, lines[vec[1]].fref))
    /\ \A i \in 1..Len(vec) : lines[vec[i]].line_n = i - 1

\* C26. Line matrix invariant: for every file the per-file line vector
\* holds exactly one Line per line of that file's content, in ascending
\* line_n with line_n equal to its index, and the flat vector holds each
\* Line once; also when several hints name the same file, with the same
\* file_name string or with different strings that canonicalize to the same
\* path.
LineMatrix ==
    MatrixBuilt =>
        /\ \A cpath \in DOMAIN lines_in_files : OneLinePerContentLine(lines_in_files[cpath])
        /\ {lines_by_useful[k] : k \in 1..Len(lines_by_useful)} = DOMAIN lines
        /\ \A j, k \in 1..Len(lines_by_useful) :
              lines_by_useful[j] = lines_by_useful[k] => j = k

(***************************************************************************)
(* The subscription stream and the update requests                         *)
(***************************************************************************)
SubRunning == sub_pc \in {"sleeping", "fetching"}

PendingKeys == {updated_cmessage_keys[i] : i \in 1..Len(updated_cmessage_keys)}

\* the stream has yielded the row that write number n stored under key, or
\* a later one
DeliveredSince(key, n) ==
    \E d \in 1..Len(delivered) :
        /\ delivered[d].sub_event = "cmessage_update"
        /\ KeyOf(delivered[d].cmessage_rec) = key
        /\ delivered[d].write_n >= n
        /\ delivered[d].cmessage_rec = write_log[delivered[d].write_n]

\* every finished cmessage_set of the thread the stream has gone past is
\* delivered, and the polls went through the ids after the first cursor one
\* by one
NothingMissed ==
    /\ \A i \in 1..Len(polled_ids) : polled_ids[i] = cursor_at_sub + i
    /\ last_event_id = cursor_at_sub + Len(polled_ids)
    /\ last_event_id <= Len(pubsub_events)
    /\ SubRunning =>
          \A r \in 1..Len(requests) :
              \A key \in {KeyOf(requests[r].cmessage_rec)} :
                  /\ requests[r].pc = "done"
                  /\ key.cmessage_belongs_to_cthread_id = SubscribedThread
                  /\ requests[r].pubevent_id <= last_event_id
                  /\ key \notin PendingKeys
                  => DeliveredSince(key, requests[r].write_n)

\* C27. No missed update for a subscriber: under any interleaving of
\* cmessage_set calls with a running stream, every cmessage written for the
\* subscribed thread is delivered, in the initial snapshot or as a later
\* cmessage_update event; the cursor last_event_id never decreases and no
\* pubsub event with id above the cursor read at subscription time is
\* skipped by successive polls.
NoMissedUpdate ==
    /\ []NothingMissed
    /\ [][last_event_id' >= last_event_id]_vars

\* C27 witness: a row written before the subscription came with the
\* snapshot, and a row whose event was pushed after it came with a poll.
NoMissedUpdateWitness ==
    /\ sub_pc = "sleeping"
    /\ pre_existing_cmessages # <<>>
    /\ \E r \in 1..Len(requests) :
          /\ requests[r].pc = "done"
          /\ requests[r].pubevent_id > cursor_at_sub
          /\ requests[r].pubevent_id <= last_event_id
          /\ \A i \in 1..Len(pre_existing_cmessages) :
                pre_existing_cmessages[i].write_n < requests[r].write_n
          /\ \E d \in 1..Len(delivered) : delivered[d].write_n = requests[r].write_n

\* the columns a request sets
PatchFields(incoming_json) == DOMAIN incoming_json \ KeyFields

OneShotBuffer ==
    \A i \in 1..Len(responses) :
        responses[i].result # <<>> =>
            /\ responses[i].result = SubSeq(pushed, 1, responses[i].pushed_before)
            /\ \A j \in 1..Len(responses) : j # i => responses[j].result = <<>>
            /\ \A j \in 1..(i - 1) : responses[j].pushed_before = 0

\* C28 witness: a call returned the values pushed so far, a value was pushed
\* after it, and the next call returned nothing.
OneShotBufferWitness ==
    \E i, j \in 1..Len(responses) :
        /\ i < j
        /\ Len(responses[i].result) >= 2
        /\ responses[j].result = <<>>
        /\ responses[j].pushed_before > responses[i].pushed_before

(***************************************************************************)
(* The answers of run_tools                                                *)
(***************************************************************************)
\* the returned messages hold, after the original ones, a tool message for
\* the call
Answered(t_call) ==
    \E k \in (Len(tools_messages) + 1)..Len(context_messages) :
        /\ context_messages[k].role = "tool"
        /\ context_messages[k].tool_call_id = t_call.id

\* C30. Every tool call is answered: whenever run_tools returns
\* (messages, true), for every tool call of the last assistant message the
\* returned messages contain, after the original messages, a message with
\* role "tool" whose tool_call_id equals that call's id, including for calls
\* with unparsable arguments, failing tools and tool names that match no
\* known command.
EveryToolCallAnswered ==
    tools_pc = "returned" /\ tools_result =>
        \A k \in 1..Len(AssistantCalls(tools_messages)) :
            Answered(AssistantCalls(tools_messages)[k])

====
